---- MODULE Spec2Model ----
(***************************************************************************)
(* Model of drewfead/cali: the mock Google Calendar server of package      *)
(* googlecaltest (an in-memory event store behind HTTP handlers), the      *)
(* calendar Client that calls it, and the mapping functions between the    *)
(* proto requests and calendar.Event.                                      *)
(*                                                                         *)
(* Go strings that the code compares with < (start times, timeMin,         *)
(* timeMax, Created, Updated) are sequences of one-character strings, so   *)
(* that the byte-wise comparison is computed; strings that are only        *)
(* copied or tested for equality are TLA+ strings.  Every handler runs     *)
(* under the server's lock from its first to its last access of the store, *)
(* so a handler is one step.  JSON bodies are the decoded values.          *)
(***************************************************************************)
EXTENDS Integers, Sequences, FiniteSets, TLC

\* ------------------------------------------------------------------ bounds
\* Operations performed on one server instance.
MaxOps == 3
\* The wall clock advances at most this many ticks.
MaxClock == 2
\* Clock ticks in one second: time.RFC3339 keeps whole seconds only.
TicksPerSecond == 2
\* Events of the calendars that the listing specification starts from.
MaxEvents == 3
\* Goroutines that call the server at the same time.
MaxThreads == 2
\* Events of the calendar that Client.ListEvents streams from.
MaxPage == 2

\* ------------------------------------------------------- Go string helpers
\* Byte value of the characters that occur in the time strings.
CharCode(c) ==
  CASE c = "+" -> 43 [] c = "-" -> 45
    [] c = "0" -> 48 [] c = "1" -> 49 [] c = "2" -> 50 [] c = "3" -> 51
    [] c = "4" -> 52 [] c = "5" -> 53 [] c = "6" -> 54 [] c = "7" -> 55
    [] c = "8" -> 56 [] c = "9" -> 57 [] c = ":" -> 58
    [] c = "T" -> 84 [] c = "Z" -> 90

\* Go's s < t on strings: byte-wise lexicographic, a proper prefix is less.
\* StrLessFrom compares from position i on, the earlier positions being equal.
RECURSIVE StrLessFrom(_, _, _)
StrLessFrom(s, t, i) ==
  IF i > Len(t) THEN FALSE
  ELSE IF i > Len(s) THEN TRUE
  ELSE IF s[i] = t[i] THEN StrLessFrom(s, t, i + 1)
  ELSE CharCode(s[i]) < CharCode(t[i])

StrLess(s, t) == StrLessFrom(s, t, 1)

Digit(d) ==
  CASE d = 0 -> "0" [] d = 1 -> "1" [] d = 2 -> "2" [] d = 3 -> "3"
    [] d = 4 -> "4" [] d = 5 -> "5" [] d = 6 -> "6" [] d = 7 -> "7"
    [] d = 8 -> "8" [] d = 9 -> "9"

TwoDigits(n) == <<Digit(n \div 10), Digit(n % 10)>>

\* The model's times lie in the UTC day 2024-01-15 (day 19737 of the epoch).
DayStart == 19737 * 86400
Date15 == <<"2", "0", "2", "4", "-", "0", "1", "-", "1", "5">>
Date16 == <<"2", "0", "2", "4", "-", "0", "1", "-", "1", "6">>

\* The value of a decimal digit, and of the two digits of s at i and i + 1.
DigitVal(c) == CharCode(c) - 48
TwoDigitVal(s, i) == 10 * DigitVal(s[i]) + DigitVal(s[i + 1])

\* time.Parse("2006-01-02", s) in Unix seconds: midnight UTC of the date.
\* Defined for the days of January 2024.
ParseDate(s) == (19722 + TwoDigitVal(s, 9)) * 86400

\* time.Parse(time.RFC3339, s) in Unix seconds: the local date and time minus
\* the UTC offset that ends the string ("Z" or +hh:mm or -hh:mm).
ParseRFC3339(s) ==
  LET local == ParseDate(s) + TwoDigitVal(s, 12) * 3600
                 + TwoDigitVal(s, 15) * 60 + TwoDigitVal(s, 18)
      offset == IF s[20] = "Z" THEN 0
                ELSE TwoDigitVal(s, 21) * 3600 + TwoDigitVal(s, 24) * 60
  IN IF s[20] = "-" THEN local + offset ELSE local - offset

\* t.Format(time.RFC3339) of a UTC time given in Unix seconds: whole seconds,
\* "Z" for the zero offset.  Defined for the seconds of 2024-01-15.
FormatRFC3339(t) ==
  LET s == t - DayStart IN
  Date15 \o <<"T">> \o TwoDigits(s \div 3600) \o <<":">>
         \o TwoDigits((s % 3600) \div 60) \o <<":">>
         \o TwoDigits(s % 60) \o <<"Z">>

\* time.Now() in Unix seconds when the clock shows c ticks; the run starts
\* at 2024-01-15T09:59:59Z.
NowUnix(c) == DayStart + 9 * 3600 + 59 * 60 + 59 + (c \div TicksPerSecond)

\* time.Now().Format(time.RFC3339)
NowString(c) == FormatRFC3339(NowUnix(c))

\* ------------------------------------------------------- calendar.Event
\* Optional values (Go pointers): set = FALSE is nil.
NilStr == [set |-> FALSE, v |-> ""]
NilBool == [set |-> FALSE, v |-> FALSE]
NilTime == [set |-> FALSE, v |-> 0, nanos |-> 0]
SomeStr(s) == [set |-> TRUE, v |-> s]
SomeBool(b) == [set |-> TRUE, v |-> b]
SomeTime(t) == [set |-> TRUE, v |-> t, nanos |-> 0]
\* timestamppb.Timestamp{Seconds: t, Nanos: n}
TimeAt(t, n) == [set |-> TRUE, v |-> t, nanos |-> n]

\* *calendar.EventDateTime: isNil is the nil pointer.
NilDateTime == [isNil |-> TRUE, dateTime |-> <<>>, date |-> <<>>, timeZone |-> ""]
TimedAt(s) == [isNil |-> FALSE, dateTime |-> s, date |-> <<>>, timeZone |-> ""]
AllDay(d) == [isNil |-> FALSE, dateTime |-> <<>>, date |-> d, timeZone |-> ""]
\* *calendar.EventSource
NilSource == [isNil |-> TRUE, title |-> "", url |-> ""]

\* The zero calendar.Event (the fields the repository reads or writes).
ZeroEvent ==
  [id |-> "", summary |-> "", description |-> "", location |-> "",
   status |-> "", created |-> <<>>, updated |-> <<>>, htmlLink |-> "",
   start |-> NilDateTime, end |-> NilDateTime,
   guestsCanSeeOtherGuests |-> NilBool, guestsCanModify |-> FALSE,
   guestsCanInviteOthers |-> NilBool, source |-> NilSource,
   transparency |-> ""]

\* fmt.Sprintf("event%d", n)
EventId(n) == "event" \o ToString(n)

\* fmt.Sprintf("https://calendar.google.com/event?eid=%s", id)
HtmlLinkOf(id) == "https://calendar.google.com/event?eid=" \o id

\* --------------------------------------------------------------- Go maps
\* Variant: the value is written under every key of the map.
MapPutAll(m, k, v) == [x \in DOMAIN m \cup {k} |-> v]
\* m[k] = v
MapPut(m, k, v) == [x \in DOMAIN m \cup {k} |-> IF x = k THEN v ELSE m[x]]
\* Variant: the entry stays in the map.
MapDelNothing(m, k) == m
\* delete(m, k)
MapDel(m, k) == [x \in DOMAIN m \ {k} |-> m[x]]
EmptyMap == [x \in {} |-> ZeroEvent]

\* s.events[calendarID], nil when the calendar was never written
HasCal(ev, cal) == cal \in DOMAIN ev
HasEvent(ev, cal, id) == HasCal(ev, cal) /\ id \in DOMAIN ev[cal]

\* ------------------------------------------------------ HTTP responses
\* A request body: valid = FALSE is a body json.Decode rejects.
BadJSON == [valid |-> FALSE, event |-> ZeroEvent]
Body(e) == [valid |-> TRUE, event |-> e]

\* Optional integers of the query string (maxResults, pageToken).
NilInt == [set |-> FALSE, v |-> 0]
SomeInt(n) == [set |-> TRUE, v |-> n]

\* The query of a List request; absent parameters are "" or NilInt.
NoQuery ==
  [timeMin |-> <<>>, timeMax |-> <<>>, maxResults |-> NilInt,
   pageToken |-> NilInt, singleEvents |-> "", orderBy |-> ""]

\* What an operation answered.  status is the HTTP status (StatusPanic: the
\* handler panicked and net/http dropped the connection; StatusNone: a Go
\* call without HTTP status).
StatusPanic == "panic"
StatusNone == "-"
NoResp ==
  [op |-> "none", cal |-> "", id |-> "", status |-> StatusNone,
   event |-> ZeroEvent, items |-> <<>>, nextPageToken |-> NilInt,
   query |-> NoQuery, key |-> "", sent |-> ZeroEvent]

\* Result of a handler: the store and the counter afterwards, and the answer.
Outcome(ev, nid, r) == [events |-> ev, nextID |-> nid, resp |-> r]

\* ---------------------------------------------------------- insertEvent
\* Variant: the identifier is numbered by the events the calendar holds.
NewEventIdByCount(calEvents, nid) == EventId(Cardinality(DOMAIN calEvents) + 1)

\* "Generate event ID": the identifier of the event being inserted.
NewEventId(calEvents, nid) == EventId(nid)

\* Variant: the counter is not advanced.
NextIDStuck(nid) == nid

\* s.nextID++
NextIDAfter(nid) == nid + 1

\* Variant: the status and the update time of the request body are kept.
WithMetadataFromBody(event, id, created) ==
  [event EXCEPT !.id = id, !.created = created, !.htmlLink = HtmlLinkOf(id)]

\* "Set metadata": the decoded event with the fields the server assigns.
WithMetadata(event, id, created) ==
  [event EXCEPT !.id = id, !.status = "confirmed", !.created = created,
                !.updated = created, !.htmlLink = HtmlLinkOf(id)]

\* Variant: the identifier is drawn before the body is decoded, so that a
\* rejected body uses one up.
insertEventCountingRejected(ev, nid, now, cal, body) ==
  IF ~body.valid
  THEN Outcome(ev, NextIDAfter(nid),
               [NoResp EXCEPT !.op = "insert", !.cal = cal, !.status = "400"])
  ELSE
    LET calEvents == IF HasCal(ev, cal) THEN ev[cal] ELSE EmptyMap
        id == NewEventId(calEvents, nid)
        event == WithMetadata(body.event, id, NowString(now))
    IN Outcome(MapPut(ev, cal, MapPut(calEvents, id, event)), NextIDAfter(nid),
               [NoResp EXCEPT !.op = "insert", !.cal = cal, !.id = id,
                              !.status = "200", !.event = event,
                              !.sent = body.event])

insertEvent(ev, nid, now, cal, body) ==
  IF ~body.valid
  THEN Outcome(ev, nid, [NoResp EXCEPT !.op = "insert", !.cal = cal,
                                       !.status = "400"])
  ELSE
    LET calEvents == IF HasCal(ev, cal) THEN ev[cal] ELSE EmptyMap
        id == NewEventId(calEvents, nid)
        event == WithMetadata(body.event, id, NowString(now))
    IN Outcome(MapPut(ev, cal, MapPut(calEvents, id, event)), NextIDAfter(nid),
               [NoResp EXCEPT !.op = "insert", !.cal = cal, !.id = id,
                              !.status = "200", !.event = event,
                              !.sent = body.event])

\* ------------------------------------------------------------- getEvent
getEvent(ev, cal, id) ==
  IF ~HasCal(ev, cal) \/ ~HasEvent(ev, cal, id)
  THEN [NoResp EXCEPT !.op = "get", !.cal = cal, !.id = id, !.status = "404"]
  ELSE [NoResp EXCEPT !.op = "get", !.cal = cal, !.id = id, !.status = "200",
                      !.event = ev[cal][id]]

\* ---------------------------------------------------------- updateEvent
\* Variant: the replace is refused when the stored event is not the one the
\* body was built from (its update time differs).
updateEventIfUnchanged(ev, nid, now, cal, id, body) ==
  IF ~HasCal(ev, cal) \/ ~HasEvent(ev, cal, id)
  THEN Outcome(ev, nid, [NoResp EXCEPT !.op = "update", !.cal = cal,
                                       !.id = id, !.status = "404"])
  ELSE IF ~body.valid
  THEN Outcome(ev, nid, [NoResp EXCEPT !.op = "update", !.cal = cal,
                                       !.id = id, !.status = "400"])
  ELSE IF body.event.updated # <<>> /\ body.event.updated # ev[cal][id].updated
  THEN Outcome(ev, nid, [NoResp EXCEPT !.op = "update", !.cal = cal,
                                       !.id = id, !.status = "412"])
  ELSE Outcome(MapPut(ev, cal,
                      MapPut(ev[cal], id,
                             [body.event EXCEPT
                                !.id = id,
                                !.created = ev[cal][id].created,
                                !.updated = NowString(now),
                                !.htmlLink = ev[cal][id].htmlLink])),
               nid,
               [NoResp EXCEPT !.op = "update", !.cal = cal, !.id = id,
                              !.status = "200", !.sent = body.event])

\* Variant: an Update of an event that is not stored stores it.
updateEventUpsert(ev, nid, now, cal, id, body) ==
  IF ~body.valid
  THEN Outcome(ev, nid, [NoResp EXCEPT !.op = "update", !.cal = cal,
                                       !.id = id, !.status = "400"])
  ELSE
    LET calEvents == IF HasCal(ev, cal) THEN ev[cal] ELSE EmptyMap
        updates == [body.event EXCEPT !.id = id, !.updated = NowString(now)]
    IN Outcome(MapPut(ev, cal, MapPut(calEvents, id, updates)), nid,
               [NoResp EXCEPT !.op = "update", !.cal = cal, !.id = id,
                              !.status = "200", !.event = updates,
                              !.sent = body.event])

\* Variant: the body is stored as it came, identifier and creation
\* timestamp included.
updateEventWholesale(ev, nid, now, cal, id, body) ==
  IF ~HasCal(ev, cal) \/ ~HasEvent(ev, cal, id)
  THEN Outcome(ev, nid, [NoResp EXCEPT !.op = "update", !.cal = cal,
                                       !.id = id, !.status = "404"])
  ELSE IF ~body.valid
  THEN Outcome(ev, nid, [NoResp EXCEPT !.op = "update", !.cal = cal,
                                       !.id = id, !.status = "400"])
  ELSE
    LET updates == [body.event EXCEPT !.updated = NowString(now)]
    IN Outcome(MapPut(ev, cal, MapPut(ev[cal], id, updates)), nid,
               [NoResp EXCEPT !.op = "update", !.cal = cal, !.id = id,
                              !.status = "200", !.event = updates,
                              !.sent = body.event])

updateEvent(ev, nid, now, cal, id, body) ==
  IF ~HasCal(ev, cal) \/ ~HasEvent(ev, cal, id)
  THEN Outcome(ev, nid, [NoResp EXCEPT !.op = "update", !.cal = cal,
                                       !.id = id, !.status = "404"])
  ELSE IF ~body.valid
  THEN Outcome(ev, nid, [NoResp EXCEPT !.op = "update", !.cal = cal,
                                       !.id = id, !.status = "400"])
  ELSE
    LET existing == ev[cal][id]
        updates == [body.event EXCEPT !.id = id,
                                      !.created = existing.created,
                                      !.updated = NowString(now),
                                      !.htmlLink = existing.htmlLink]
    IN Outcome(MapPut(ev, cal, MapPut(ev[cal], id, updates)), nid,
               [NoResp EXCEPT !.op = "update", !.cal = cal, !.id = id,
                              !.status = "200", !.event = updates,
                              !.sent = body.event])

\* ---------------------------------------------------------- deleteEvent
deleteEvent(ev, nid, cal, id) ==
  IF ~HasCal(ev, cal) \/ ~HasEvent(ev, cal, id)
  THEN Outcome(ev, nid, [NoResp EXCEPT !.op = "delete", !.cal = cal,
                                       !.id = id, !.status = "404"])
  ELSE Outcome(MapPut(ev, cal, MapDel(ev[cal], id)), nid,
               [NoResp EXCEPT !.op = "delete", !.cal = cal, !.id = id,
                              !.status = "204"])

\* ---------------------------------------------------------------- Reset
NoCalendars == [c \in {} |-> EmptyMap]
InitialNextID == 1
\* Variant: the counter is not rewound.
ResetKeepsCounter(ev, nid) ==
  Outcome(NoCalendars, nid, [NoResp EXCEPT !.op = "reset"])

ResetServer(ev, nid) ==
  Outcome(NoCalendars, InitialNextID, [NoResp EXCEPT !.op = "reset"])

\* ------------------------------------------------------------- AddEvent
AddEventToServer(ev, nid, cal, event) ==
  LET assign == event.id = ""
      id == IF assign THEN EventId(nid) ELSE event.id
      stored == [event EXCEPT !.id = id]
      calEvents == IF HasCal(ev, cal) THEN ev[cal] ELSE EmptyMap
  IN Outcome(MapPut(ev, cal, MapPut(calEvents, id, stored)),
             IF assign THEN nid + 1 ELSE nid,
             [NoResp EXCEPT !.op = "addEvent", !.cal = cal, !.id = id,
                            !.event = stored, !.key = event.id])

\* ----------------------------------------------------------- listEvents
\* The orders in which "for _, evt := range calEvents" can visit a map: Go
\* leaves the iteration order of a map unspecified and varies it per loop.
RECURSIVE Orders(_)
Orders(ids) ==
  IF ids = {} THEN {<<>>}
  ELSE UNION {{<<id>> \o o : o \in Orders(ids \ {id})} : id \in ids}

RangeOrders(m) == Orders(DOMAIN m)

\* Variant: the lower bound is compared the wrong way round.
PassesTimeFilterSwapped(evt, timeMin, timeMax) ==
  /\ ~(timeMin # <<>> /\ ~evt.start.isNil /\ evt.start.dateTime # <<>>
       /\ StrLess(timeMin, evt.start.dateTime))
  /\ ~(timeMax # <<>> /\ ~evt.start.isNil /\ evt.start.dateTime # <<>>
       /\ StrLess(timeMax, evt.start.dateTime))

\* The time filter of one event: TRUE when the loop keeps it.
PassesTimeFilter(evt, timeMin, timeMax) ==
  /\ ~(timeMin # <<>> /\ ~evt.start.isNil /\ evt.start.dateTime # <<>>
       /\ StrLess(evt.start.dateTime, timeMin))
  /\ ~(timeMax # <<>> /\ ~evt.start.isNil /\ evt.start.dateTime # <<>>
       /\ StrLess(timeMax, evt.start.dateTime))

\* The filtering loop: the events of calEvents, visited in the order o.
RECURSIVE FilterEvents(_, _, _, _)
FilterEvents(calEvents, o, timeMin, timeMax) ==
  IF o = <<>> THEN <<>>
  ELSE LET evt == calEvents[Head(o)]
           rest == FilterEvents(calEvents, Tail(o), timeMin, timeMax)
       IN IF PassesTimeFilter(evt, timeMin, timeMax) THEN <<evt>> \o rest
          ELSE rest

\* iTime / jTime of the comparison function: Start.DateTime, else Start.Date,
\* "" without a Start.
ResolvedStart(evt) ==
  IF evt.start.isNil THEN <<>>
  ELSE IF evt.start.dateTime # <<>> THEN evt.start.dateTime
  ELSE evt.start.date

\* The start time MapEventToProto reads from an event that has a Start.
StartTimeOf(evt) ==
  IF evt.start.dateTime # <<>> THEN ParseRFC3339(evt.start.dateTime)
  ELSE ParseDate(evt.start.date)

\* The less function handed to sort.Slice.
StartLess(a, b) == StrLess(ResolvedStart(a), ResolvedStart(b))

Swap(s, i, j) == [s EXCEPT ![i] = s[j], ![j] = s[i]]

\* sort.Slice on a slice of at most 12 elements is an insertion sort:
\* for i := 1; i < n; i++ { for j := i; j > 0 && less(j, j-1); j-- { swap } }
\* Variant: the inner loop moves the element down one place only.
InsertDownOnce(s, j) ==
  IF j > 1 /\ StartLess(s[j], s[j - 1]) THEN Swap(s, j, j - 1) ELSE s

RECURSIVE InsertDown(_, _)
InsertDown(s, j) ==
  IF j > 1 /\ StartLess(s[j], s[j - 1]) THEN InsertDown(Swap(s, j, j - 1), j - 1)
  ELSE s

RECURSIVE InsertionSortFrom(_, _)
InsertionSortFrom(s, i) ==
  IF i > Len(s) THEN s ELSE InsertionSortFrom(InsertDown(s, i), i + 1)

SortSlice(s) == InsertionSortFrom(s, 2)

\* The "Sort events" step.
SortEvents(evs, q) ==
  IF q.orderBy = "startTime" /\ q.singleEvents = "true" THEN SortSlice(evs)
  ELSE evs

\* startIdx, endIdx of the pagination step, 0-based as in the code.
PageStart(q) == IF q.pageToken.set THEN q.pageToken.v ELSE 0
PageEnd(q, n) ==
  LET maxRes == IF q.maxResults.set THEN q.maxResults.v ELSE n
      endIdx == PageStart(q) + maxRes
  IN IF endIdx > n THEN n ELSE endIdx

\* events[startIdx:endIdx] panics unless 0 <= startIdx <= endIdx <= cap.
SliceOK(lo, hi, n) == 0 <= lo /\ lo <= hi /\ hi <= n

\* The pagination step and the response, for the filtered and sorted events.
PageOf(evs, cal, q) ==
  IF ~SliceOK(PageStart(q), PageEnd(q, Len(evs)), Len(evs))
  THEN [NoResp EXCEPT !.op = "list", !.cal = cal, !.query = q,
                      !.status = StatusPanic]
  ELSE [NoResp EXCEPT !.op = "list", !.cal = cal, !.query = q,
                      !.status = "200",
                      !.items = SubSeq(evs, PageStart(q) + 1,
                                       PageEnd(q, Len(evs))),
                      !.nextPageToken =
                         IF PageEnd(q, Len(evs)) < Len(evs)
                         THEN SomeInt(PageEnd(q, Len(evs))) ELSE NilInt]

\* The answer of listEvents when the map is visited in the order o.
listEvents(ev, cal, q, o) ==
  PageOf(SortEvents(FilterEvents(IF HasCal(ev, cal) THEN ev[cal] ELSE EmptyMap,
                                 o, q.timeMin, q.timeMax), q),
         cal, q)

\* The map orders of the calendar a List or GetEvents call visits.
CalOrders(ev, cal) == RangeOrders(IF HasCal(ev, cal) THEN ev[cal] ELSE EmptyMap)

\* ------------------------------------------------------------ GetEvents
RECURSIVE EventsInOrder(_, _)
EventsInOrder(calEvents, o) ==
  IF o = <<>> THEN <<>>
  ELSE <<calEvents[Head(o)]>> \o EventsInOrder(calEvents, Tail(o))

GetEventsOf(ev, cal, o) ==
  IF ~HasCal(ev, cal) THEN [NoResp EXCEPT !.op = "getEvents", !.cal = cal]
  ELSE [NoResp EXCEPT !.op = "getEvents", !.cal = cal,
                      !.items = EventsInOrder(ev[cal], o)]

\* -------------------------------------------------------- mapping layer
\* proto.AddEventRequest with every optional field absent.
ZeroAddRequest ==
  [calendarId |-> NilStr, summary |-> "", idempotencyKey |-> NilStr,
   description |-> NilStr, location |-> NilStr,
   guestsCanSeeOtherGuests |-> NilBool, guestsCanModify |-> NilBool,
   guestsCanInviteOthers |-> NilBool, sourceTitle |-> NilStr,
   sourceUrl |-> NilStr, blocksTime |-> NilBool,
   startTime |-> NilTime, endTime |-> NilTime]

\* proto.UpdateEventRequest with every optional field absent.
ZeroUpdateRequest ==
  [calendarId |-> NilStr, eventId |-> "", summary |-> NilStr,
   description |-> NilStr, location |-> NilStr,
   guestsCanSeeOtherGuests |-> NilBool, guestsCanModify |-> NilBool,
   guestsCanInviteOthers |-> NilBool, sourceTitle |-> NilStr,
   sourceUrl |-> NilStr, blocksTime |-> NilBool,
   startTime |-> NilTime, endTime |-> NilTime]

\* proto.ListEventsRequest with every optional field absent.  after and
\* before are timestamps in Unix seconds.
ZeroListRequest ==
  [calendarId |-> NilStr, after |-> NilTime, before |-> NilTime,
   future |-> NilBool, past |-> NilBool, limit |-> NilInt, anchor |-> NilStr]

NonEmpty(opt) == opt.set /\ opt.v # ""

\* &calendar.EventDateTime{DateTime: t.Format(time.RFC3339), TimeZone: "UTC"}
UTCDateTime(t) ==
  [isNil |-> FALSE, dateTime |-> FormatRFC3339(t), date |-> <<>>,
   timeZone |-> "UTC"]

\* now.Add(time.Hour - Minute()*time.Minute - Second()*time.Second)
NextHour(t) == t + 3600 - ((t % 3600) \div 60) * 60 - (t % 60)

\* Variant: the transparency is left empty when blocks_time is missing.
TransparencyIfPresent(blocksTime) ==
  IF ~blocksTime.set THEN ""
  ELSE IF blocksTime.v THEN "opaque" ELSE "transparent"

\* if req.BlocksTime != nil && *req.BlocksTime { "opaque" } else
\* { "transparent" }
TransparencyOf(blocksTime) ==
  IF blocksTime.set /\ blocksTime.v THEN "opaque" ELSE "transparent"

\* Variant: a guest flag missing from the request is written as an
\* explicit false.
MapProtoToEventDefaultingFlags(req, nowUnix) ==
  LET startTime == IF req.startTime.set THEN req.startTime.v
                   ELSE NextHour(nowUnix)
      endTime == IF req.endTime.set THEN req.endTime.v ELSE startTime + 3600
  IN [ZeroEvent EXCEPT
        !.summary = req.summary,
        !.id = IF NonEmpty(req.idempotencyKey) THEN req.idempotencyKey.v
               ELSE "",
        !.description = IF NonEmpty(req.description) THEN req.description.v
                        ELSE "",
        !.location = IF NonEmpty(req.location) THEN req.location.v ELSE "",
        !.guestsCanSeeOtherGuests = SomeBool(req.guestsCanSeeOtherGuests.v),
        !.guestsCanModify = req.guestsCanModify.v,
        !.guestsCanInviteOthers = SomeBool(req.guestsCanInviteOthers.v),
        !.source =
           IF NonEmpty(req.sourceTitle) \/ NonEmpty(req.sourceUrl)
           THEN [isNil |-> FALSE, title |-> req.sourceTitle.v,
                 url |-> req.sourceUrl.v]
           ELSE NilSource,
        !.transparency = TransparencyOf(req.blocksTime),
        !.start = UTCDateTime(startTime),
        !.end = UTCDateTime(endTime)]

\* MapProtoToEvent; nowUnix is what time.Now() returns inside it.
MapProtoToEvent(req, nowUnix) ==
  LET startTime == IF req.startTime.set THEN req.startTime.v
                   ELSE NextHour(nowUnix)
      endTime == IF req.endTime.set THEN req.endTime.v ELSE startTime + 3600
  IN [ZeroEvent EXCEPT
        !.summary = req.summary,
        !.id = IF NonEmpty(req.idempotencyKey) THEN req.idempotencyKey.v
               ELSE "",
        !.description = IF NonEmpty(req.description) THEN req.description.v
                        ELSE "",
        !.location = IF NonEmpty(req.location) THEN req.location.v ELSE "",
        !.guestsCanSeeOtherGuests = req.guestsCanSeeOtherGuests,
        !.guestsCanModify = IF req.guestsCanModify.set
                            THEN req.guestsCanModify.v ELSE FALSE,
        !.guestsCanInviteOthers = req.guestsCanInviteOthers,
        !.source =
           IF NonEmpty(req.sourceTitle) \/ NonEmpty(req.sourceUrl)
           THEN [isNil |-> FALSE,
                 title |-> IF req.sourceTitle.set THEN req.sourceTitle.v ELSE "",
                 url |-> IF req.sourceUrl.set THEN req.sourceUrl.v ELSE ""]
           ELSE NilSource,
        !.transparency = TransparencyOf(req.blocksTime),
        !.start = UTCDateTime(startTime),
        !.end = UTCDateTime(endTime)]

\* Variant: the update is built from an empty event instead of the
\* existing one.
MapProtoUpdateFromScratch(req, existingEvent) ==
  [ZeroEvent EXCEPT
     !.id = existingEvent.id,
     !.summary = IF NonEmpty(req.summary) THEN req.summary.v ELSE @,
     !.location = IF NonEmpty(req.location) THEN req.location.v ELSE @]

\* Variant: a guest flag of the update is applied only when it is true.
MapProtoUpdateSkippingFalse(req, existingEvent) ==
  [existingEvent EXCEPT
     !.summary = IF NonEmpty(req.summary) THEN req.summary.v ELSE @,
     !.description = IF NonEmpty(req.description) THEN req.description.v ELSE @,
     !.location = IF NonEmpty(req.location) THEN req.location.v ELSE @,
     !.guestsCanSeeOtherGuests =
        IF req.guestsCanSeeOtherGuests.set /\ req.guestsCanSeeOtherGuests.v
        THEN req.guestsCanSeeOtherGuests
        ELSE @,
     !.guestsCanModify =
        IF req.guestsCanModify.set /\ req.guestsCanModify.v
        THEN req.guestsCanModify.v ELSE @,
     !.guestsCanInviteOthers =
        IF req.guestsCanInviteOthers.set /\ req.guestsCanInviteOthers.v
        THEN req.guestsCanInviteOthers ELSE @,
     !.source =
        IF req.sourceTitle.set \/ req.sourceUrl.set
        THEN [isNil |-> FALSE,
              title |-> IF req.sourceTitle.set THEN req.sourceTitle.v
                        ELSE @.title,
              url |-> IF req.sourceUrl.set THEN req.sourceUrl.v ELSE @.url]
        ELSE @,
     !.transparency =
        IF req.blocksTime.set
        THEN (IF req.blocksTime.v THEN "opaque" ELSE "transparent")
        ELSE @,
     !.start = IF req.startTime.set THEN UTCDateTime(req.startTime.v) ELSE @,
     !.end = IF req.endTime.set THEN UTCDateTime(req.endTime.v) ELSE @]

\* MapProtoUpdateToEvent
MapProtoUpdateToEvent(req, existingEvent) ==
  [existingEvent EXCEPT
     !.summary = IF NonEmpty(req.summary) THEN req.summary.v ELSE @,
     !.description = IF NonEmpty(req.description) THEN req.description.v ELSE @,
     !.location = IF NonEmpty(req.location) THEN req.location.v ELSE @,
     !.guestsCanSeeOtherGuests =
        IF req.guestsCanSeeOtherGuests.set THEN req.guestsCanSeeOtherGuests
        ELSE @,
     !.guestsCanModify = IF req.guestsCanModify.set THEN req.guestsCanModify.v
                         ELSE @,
     !.guestsCanInviteOthers =
        IF req.guestsCanInviteOthers.set THEN req.guestsCanInviteOthers ELSE @,
     !.source =
        IF req.sourceTitle.set \/ req.sourceUrl.set
        THEN [isNil |-> FALSE,
              title |-> IF req.sourceTitle.set THEN req.sourceTitle.v
                        ELSE @.title,
              url |-> IF req.sourceUrl.set THEN req.sourceUrl.v ELSE @.url]
        ELSE @,
     !.transparency =
        IF req.blocksTime.set
        THEN (IF req.blocksTime.v THEN "opaque" ELSE "transparent")
        ELSE @,
     !.start = IF req.startTime.set THEN UTCDateTime(req.startTime.v) ELSE @,
     !.end = IF req.endTime.set THEN UTCDateTime(req.endTime.v) ELSE @]

\* ------------------------------------------------------- calendar Client
\* calendarID := "primary" unless the request names a non-empty one.
CalendarOf(req) == IF NonEmpty(req.calendarId) THEN req.calendarId.v ELSE "primary"

\* Client.CreateEvent: map the request, then Events.Insert.
CreateEvent(ev, nid, now, req) ==
  LET out == insertEvent(ev, nid, now, CalendarOf(req),
                         Body(MapProtoToEvent(req, NowUnix(now))))
  IN [out EXCEPT !.resp.op = "create",
                 !.resp.key = IF req.idempotencyKey.set
                              THEN req.idempotencyKey.v ELSE ""]

\* ------------------------------------------------------------ the inputs
Calendars == {"primary", "work"}

T1000 == FormatRFC3339(DayStart + 10 * 3600)
T1030 == FormatRFC3339(DayStart + 10 * 3600 + 30 * 60)
T1100 == FormatRFC3339(DayStart + 11 * 3600)
\* 2024-01-15T12:00:00+05:00, the instant 07:00:00Z
T1200Plus5 ==
  Date15 \o <<"T", "1", "2", ":", "0", "0", ":", "0", "0",
              "+", "0", "5", ":", "0", "0">>
\* 2024-01-16T00:00:00Z
T16Midnight ==
  Date16 \o <<"T", "0", "0", ":", "0", "0", ":", "0", "0", "Z">>

\* Events a caller of Events.Insert sends.
Standup ==
  [ZeroEvent EXCEPT !.summary = "Standup", !.start = TimedAt(T1000),
                    !.end = TimedAt(T1100)]
Review ==
  [ZeroEvent EXCEPT !.summary = "Review", !.location = "Room A",
                    !.id = "client-chosen", !.status = "tentative",
                    !.created = T1000, !.start = TimedAt(T1100)]
Holiday ==
  [ZeroEvent EXCEPT !.summary = "Holiday", !.start = AllDay(Date15)]

InsertBodies == {Body(Standup), Body(Review), Body(Holiday), BadJSON}

\* Bodies of a direct Events.Update.
UpdateBodies ==
  {Body([ZeroEvent EXCEPT !.summary = "Renamed", !.id = "other",
                          !.created = T16Midnight,
                          !.htmlLink = "https://example.com"]),
   BadJSON}

\* Pre-built events handed to Server.AddEvent.
TeamMeeting ==
  [ZeroEvent EXCEPT !.id = "event1", !.summary = "Team Meeting",
                    !.start = TimedAt(T1000), !.end = TimedAt(T1100)]
Seeded == [ZeroEvent EXCEPT !.summary = "Seeded", !.start = AllDay(Date15)]
Prebuilt == {TeamMeeting, Seeded}

\* Identifiers that Get, Update and Delete requests name.
IdInputs == {EventId(1), EventId(2)}

\* Requests of Client.CreateEvent.
CreateRequests ==
  {[ZeroAddRequest EXCEPT !.summary = "Retry",
                          !.idempotencyKey = SomeStr("key-1"),
                          !.startTime = SomeTime(DayStart + 10 * 3600)],
   [ZeroAddRequest EXCEPT !.summary = "Plain",
                          !.calendarId = SomeStr("work")]}

\* Requests of Client.UpdateEvent.
UpdateRequests ==
  {[ZeroUpdateRequest EXCEPT !.eventId = id, !.location = SomeStr("Room B")]
     : id \in {EventId(1), EventId(2)}}
  \cup
  {[ZeroUpdateRequest EXCEPT !.eventId = EventId(1),
                             !.summary = SomeStr("Retitled"),
                             !.calendarId = SomeStr("work")]}

\* ------------------------------------------------------------- the state
VARIABLES
  events,    \* Server.events: calendarID -> eventID -> event
  nextID,    \* Server.nextID
  clock,     \* the wall clock, in ticks
  resp,      \* the answer of the latest operation
  upd,       \* a Client.UpdateEvent between its Get and its Update call
  pager,     \* the caller of List: one request, or a paging loop
  issued,    \* history: the identifiers Insert returned, in order
  resetMark, \* history: Len(issued) at the latest Reset
  deleted,   \* history: <<calendar, id>> of every successful Delete
  gone,      \* history: deleted pairs not stored again or reset since
  keyed,     \* history: [cal, key, id] of every keyed CreateEvent
  ops,       \* operations performed so far
  mu,        \* Server.mu: the holder of the write lock and the read lockers
  threads,   \* the goroutines that run server operations side by side
  stream,    \* one Client.ListEvents call: its goroutine and its channels
  conv,      \* one call of a mapping function: its input and its result
  svc        \* one calendarService: its client and the calls running on it

vars == <<events, nextID, clock, resp, upd, pager, issued, resetMark,
          deleted, gone, keyed, ops, mu, threads, stream, conv, svc>>

\* newCalendarService: calendarClient is nil (0; n is the client the n-th
\* successful initializeGoogleCalendar made).  call[t] is the method
\* goroutine t runs and where it is; runs counts the successful
\* initializeGoogleCalendar runs, replaced records that calendarClient was
\* assigned while it was set.
NewService ==
  [calendarClient |-> 0, runs |-> 0, replaced |-> FALSE,
   call |-> [t \in 1..MaxThreads |-> [pc |-> "idle", method |-> "none"]]]

\* sync.RWMutex: writer is the goroutine holding the write lock (0: none),
\* readers the goroutines holding a read lock.
FreeMutex == [writer |-> 0, readers |-> {}]
\* The goroutines serving requests, none of them in a handler.
Threads == 1..MaxThreads
IdleThreads == [t \in Threads |-> [pc |-> "idle", op |-> "none"]]
\* One Client.ListEvents call.  pc: the goroutine (idle, started, sending,
\* erred: an error is in errChan and the deferred closes are still to run,
\* closed); items, token: the page it fetched; delivered: the responses the
\* consumer received; cancelled: ctx.Done() is closed; cancelledAt:
\* Len(delivered) when that happened; err: what errChan was sent; errs: the
\* number of sends on errChan; consumer, result: the loop that reads the
\* channels and what it returned; via: the case of its select that made it
\* return.
IdleStream ==
  [pc |-> "idle", req |-> ZeroListRequest, cal |-> "", call |-> NoQuery,
   fetches |-> 0, items |-> <<>>, token |-> NilInt, delivered |-> <<>>,
   cancelled |-> FALSE, cancelledAt |-> 0, err |-> "", errs |-> 0,
   consumer |-> "receiving", result |-> "", via |-> ""]
\* No mapping function was called yet.  Afterwards conv holds fn, the
\* function called, its arguments and out, what it returned.
IdleConv == [pc |-> "idle"]

IdleUpdate ==
  [pc |-> "idle", req |-> ZeroUpdateRequest, existing |-> ZeroEvent,
   clean |-> TRUE]
IdlePager ==
  [pc |-> "idle", cal |-> "", query |-> NoQuery, pages |-> <<>>,
   tokens |-> <<>>, total |-> 0]

\* NewServer
Init ==
  /\ events = NoCalendars
  /\ nextID = InitialNextID
  /\ clock = 0
  /\ resp = NoResp
  /\ upd = IdleUpdate
  /\ pager = IdlePager
  /\ issued = <<>>
  /\ resetMark = 0
  /\ deleted = {}
  /\ gone = {}
  /\ keyed = {}
  /\ ops = 0
  /\ mu = FreeMutex
  /\ threads = IdleThreads
  /\ stream = IdleStream
  /\ conv = IdleConv
  /\ svc = NewService

\* A store change between the Get and the Update of a Client.UpdateEvent.
Disturbed(u) == IF u.pc = "fetched" THEN [u EXCEPT !.clean = FALSE] ELSE u

\* id is event<N> for an N the counter has yet to assign.
AheadOfCounter(id, nid) == \E n \in nid..(nid + MaxOps) : id = EventId(n)

\* The store, the counter and the answer after a handler that ran to out.
Apply(out) ==
  /\ events' = out.events
  /\ nextID' = out.nextID
  /\ resp' = out.resp
  /\ ops' = ops + 1
  /\ upd' = IF out.events # events THEN Disturbed(upd) ELSE upd

\* Time passes.
Tick ==
  /\ clock < MaxClock
  /\ clock' = clock + 1
  /\ UNCHANGED <<mu, threads, stream, conv, svc>>
  /\ UNCHANGED <<events, nextID, resp, upd, pager, issued, resetMark,
                 deleted, gone, keyed, ops>>

\* POST /calendars/{cal}/events
Insert(cal, body) ==
  /\ ops < MaxOps
  /\ LET out == insertEvent(events, nextID, clock, cal, body) IN
       /\ Apply(out)
       /\ issued' = IF out.resp.status = "200" THEN Append(issued, out.resp.id)
                    ELSE issued
  /\ UNCHANGED <<mu, threads, stream, conv, svc>>
  /\ UNCHANGED <<clock, pager, resetMark, deleted, gone, keyed>>

\* GET /calendars/{cal}/events/{id}
Get(cal, id) ==
  /\ ops < MaxOps
  /\ Apply(Outcome(events, nextID, getEvent(events, cal, id)))
  /\ UNCHANGED <<mu, threads, stream, conv, svc>>
  /\ UNCHANGED <<clock, pager, issued, resetMark, deleted, gone, keyed>>

\* PUT /calendars/{cal}/events/{id}
UpdateStep(cal, id, body) ==
  /\ Apply(updateEvent(events, nextID, clock, cal, id, body))
  /\ UNCHANGED <<mu, threads, stream, conv, svc>>
  /\ UNCHANGED <<clock, pager, issued, resetMark, deleted, gone, keyed>>

Update(cal, id, body) == ops < MaxOps /\ UpdateStep(cal, id, body)

\* DELETE /calendars/{cal}/events/{id}
DeleteStep(cal, id) ==
  /\ LET out == deleteEvent(events, nextID, cal, id) IN
       /\ Apply(out)
       /\ deleted' = IF out.resp.status = "204" THEN deleted \cup {<<cal, id>>}
                     ELSE deleted
       /\ gone' = IF out.resp.status = "204" /\ ~AheadOfCounter(id, nextID)
                  THEN gone \cup {<<cal, id>>} ELSE gone
  /\ UNCHANGED <<mu, threads, stream, conv, svc>>
  /\ UNCHANGED <<clock, pager, issued, resetMark, keyed>>

Delete(cal, id) == ops < MaxOps /\ DeleteStep(cal, id)

\* Server.Reset
Reset ==
  /\ ops < MaxOps
  /\ Apply(ResetServer(events, nextID))
  /\ resetMark' = Len(issued)
  /\ gone' = {}
  /\ UNCHANGED <<mu, threads, stream, conv, svc>>
  /\ UNCHANGED <<clock, pager, issued, deleted, keyed>>

\* Server.GetEvents
GetEvents(cal, o) ==
  /\ ops < MaxOps
  /\ Apply(Outcome(events, nextID, GetEventsOf(events, cal, o)))
  /\ UNCHANGED <<mu, threads, stream, conv, svc>>
  /\ UNCHANGED <<clock, pager, issued, resetMark, deleted, gone, keyed>>

\* Server.AddEvent
AddEvent(cal, event) ==
  /\ ops < MaxOps
  /\ LET out == AddEventToServer(events, nextID, cal, event) IN
       /\ Apply(out)
       /\ gone' = gone \ {<<cal, out.resp.id>>}
  /\ UNCHANGED <<mu, threads, stream, conv, svc>>
  /\ UNCHANGED <<clock, pager, issued, resetMark, deleted, keyed>>

\* Client.CreateEvent
ClientCreate(req) ==
  /\ ops < MaxOps
  /\ LET out == CreateEvent(events, nextID, clock, req) IN
       /\ Apply(out)
       /\ issued' = Append(issued, out.resp.id)
       /\ keyed' = IF out.resp.key # ""
                   THEN keyed \cup {[cal |-> out.resp.cal, key |-> out.resp.key,
                                     id |-> out.resp.id]}
                   ELSE keyed
  /\ UNCHANGED <<mu, threads, stream, conv, svc>>
  /\ UNCHANGED <<clock, pager, resetMark, deleted, gone>>

\* Client.UpdateEvent, first half: Events.Get of the existing event.
ClientUpdateGetStep(req) ==
  /\ upd.pc # "fetched"
  /\ LET r == getEvent(events, CalendarOf(req), req.eventId) IN
       IF r.status = "200"
       THEN /\ upd' = [pc |-> "fetched", req |-> req, existing |-> r.event,
                       clean |-> TRUE]
            /\ resp' = r
       ELSE /\ upd' = IdleUpdate
            /\ resp' = [r EXCEPT !.op = "clientUpdate"]
  /\ ops' = ops + 1
  /\ UNCHANGED <<mu, threads, stream, conv, svc>>
  /\ UNCHANGED <<events, nextID, clock, pager, issued, resetMark, deleted,
                 gone, keyed>>

ClientUpdateGet(req) == ops < MaxOps /\ ClientUpdateGetStep(req)

\* Client.UpdateEvent, second half: apply the request to the fetched event
\* and send it with Events.Update.
ClientUpdateReplaceStep ==
  /\ upd.pc = "fetched"
  /\ LET out == updateEvent(events, nextID, clock, CalendarOf(upd.req),
                            upd.req.eventId,
                            Body(MapProtoUpdateToEvent(upd.req, upd.existing)))
     IN /\ events' = out.events
        /\ nextID' = out.nextID
        /\ resp' = [out.resp EXCEPT !.op = "clientUpdate"]
  /\ ops' = ops + 1
  /\ upd' = [upd EXCEPT !.pc = "done"]
  /\ UNCHANGED <<mu, threads, stream, conv, svc>>
  /\ UNCHANGED <<clock, pager, issued, resetMark, deleted, gone, keyed>>

ClientUpdateReplace == ops < MaxOps /\ ClientUpdateReplaceStep

\* ------------------------------------------------ listing and paging
\* Events of the calendars that are listed.
Offsite ==
  [ZeroEvent EXCEPT !.summary = "Offsite", !.start = TimedAt(T1200Plus5)]
ListBodies == {Standup, Holiday, Offsite}
\* An event without Start, put into "work" with Server.AddEvent.
Floating == [ZeroEvent EXCEPT !.id = "floating", !.summary = "Floating"]

\* Query parameters of the List requests.
TimeBounds ==
  {[timeMin |-> <<>>, timeMax |-> <<>>],
   [timeMin |-> T1030, timeMax |-> <<>>],
   [timeMin |-> T16Midnight, timeMax |-> <<>>],
   [timeMin |-> <<>>, timeMax |-> T1030]}
PageSizes == {NilInt, SomeInt(1), SomeInt(2)}
PageTokens == {NilInt, SomeInt(1), SomeInt(2)}
Orderings ==
  {[singleEvents |-> "true", orderBy |-> "startTime"],
   [singleEvents |-> "true", orderBy |-> ""],
   [singleEvents |-> "", orderBy |-> "startTime"]}
ListQueries ==
  {[timeMin |-> tb.timeMin, timeMax |-> tb.timeMax, maxResults |-> k,
    pageToken |-> t, singleEvents |-> ord.singleEvents,
    orderBy |-> ord.orderBy] :
     tb \in TimeBounds, k \in PageSizes, t \in PageTokens, ord \in Orderings}

\* The server after AddEvent("work", Floating) and Events.Insert of each
\* event of bs into "primary".
RECURSIVE InsertAll(_)
InsertAll(bs) ==
  IF bs = <<>>
  THEN AddEventToServer(NoCalendars, InitialNextID, "work", Floating)
  ELSE LET before == InsertAll(SubSeq(bs, 1, Len(bs) - 1))
       IN insertEvent(before.events, before.nextID, 0, "primary",
                      Body(bs[Len(bs)]))

\* A server on which up to MaxEvents events were inserted.
InitList ==
  \E n \in 0..MaxEvents : \E bs \in [1..n -> ListBodies] :
    /\ events = InsertAll(bs).events
    /\ nextID = InsertAll(bs).nextID
    /\ issued = [i \in 1..n |-> EventId(i)]
    /\ ops = n + 1
    /\ clock = 0
    /\ resp = NoResp
    /\ upd = IdleUpdate
    /\ pager = IdlePager
    /\ resetMark = 0
    /\ deleted = {}
    /\ gone = {}
    /\ keyed = {}
    /\ mu = FreeMutex
    /\ threads = IdleThreads
    /\ stream = IdleStream
    /\ conv = IdleConv
    /\ svc = NewService

\* GET /calendars/{cal}/events: the caller sends one List request.
List(cal, q, o) ==
  /\ pager.pc = "idle"
  /\ resp' = listEvents(events, cal, q, o)
  /\ pager' = [pager EXCEPT !.pc = "listed", !.cal = cal, !.query = q]
  /\ UNCHANGED <<mu, threads, stream, conv, svc>>
  /\ UNCHANGED <<events, nextID, clock, upd, issued, resetMark, deleted,
                 gone, keyed, ops>>

\* The identifiers of a page.
IdsOf(items) == [i \in 1..Len(items) |-> items[i].id]

\* The pager after the answer r to its latest List call.
PagerAfter(pg, r) ==
  [pg EXCEPT !.pages = Append(@, IdsOf(r.items)),
             !.tokens = Append(@, r.nextPageToken),
             !.pc = IF r.status # "200" THEN "failed"
                    ELSE IF r.nextPageToken.set THEN "paging" ELSE "done"]

\* A caller starts paging through cal, k events per page: the first call of
\* the loop "for { call := List(cal).MaxResults(k); ... }".
PagerStart(cal, k, sorted, o) ==
  /\ pager.pc = "idle"
  /\ LET q == [NoQuery EXCEPT !.maxResults = SomeInt(k),
                              !.singleEvents = IF sorted THEN "true" ELSE "",
                              !.orderBy = IF sorted THEN "startTime" ELSE ""]
         r == listEvents(events, cal, q, o)
     IN /\ resp' = r
        /\ pager' = PagerAfter([IdlePager EXCEPT !.cal = cal, !.query = q,
                                                  !.total = Len(o)], r)
  /\ UNCHANGED <<mu, threads, stream, conv, svc>>
  /\ UNCHANGED <<events, nextID, clock, upd, issued, resetMark, deleted,
                 gone, keyed, ops>>

\* The next call of the loop, with the page token of the previous answer.
PagerNext(o) ==
  /\ pager.pc = "paging"
  /\ LET q == [pager.query EXCEPT
                 !.pageToken = pager.tokens[Len(pager.tokens)]]
         r == listEvents(events, pager.cal, q, o)
     IN /\ resp' = r
        /\ pager' = PagerAfter(pager, r)
  /\ UNCHANGED <<mu, threads, stream, conv, svc>>
  /\ UNCHANGED <<events, nextID, clock, upd, issued, resetMark, deleted,
                 gone, keyed, ops>>

\* Every step that ranges over a calendar's map does so in one of the
\* orders o the map can be visited in.
NextList ==
  \/ \E cal \in Calendars : \E o \in CalOrders(events, cal) :
       \E q \in ListQueries : List(cal, q, o)
  \/ \E cal \in Calendars : \E o \in CalOrders(events, cal) :
       \E k \in {1, 2}, sorted \in BOOLEAN : PagerStart(cal, k, sorted, o)
  \/ \E o \in CalOrders(events, pager.cal) : PagerNext(o)

SpecList == InitList /\ [][NextList]_vars

Next ==
  \/ Tick
  \/ \E cal \in Calendars, body \in InsertBodies : Insert(cal, body)
  \/ \E cal \in Calendars, id \in IdInputs : Get(cal, id)
  \/ \E cal \in Calendars, id \in IdInputs, body \in UpdateBodies :
       Update(cal, id, body)
  \/ \E cal \in Calendars, id \in IdInputs : Delete(cal, id)
  \/ Reset
  \/ \E cal \in Calendars : \E o \in CalOrders(events, cal) :
       GetEvents(cal, o)
  \/ \E cal \in Calendars, event \in Prebuilt : AddEvent(cal, event)
  \/ \E req \in CreateRequests : ClientCreate(req)
  \/ \E req \in UpdateRequests : ClientUpdateGet(req)
  \/ ClientUpdateReplace

Spec == Init /\ [][Next]_vars


\* ------------------------------------- two clients update one event
\* The server after one Events.Insert into "primary".
InitUpdate ==
  \E body \in {Standup, Review, Holiday} :
    LET out == insertEvent(NoCalendars, InitialNextID, 0, "primary",
                           Body(body))
    IN /\ events = out.events
       /\ nextID = out.nextID
       /\ issued = <<out.resp.id>>
       /\ ops = 1
       /\ clock = 0
       /\ resp = out.resp
       /\ upd = IdleUpdate
       /\ pager = IdlePager
       /\ resetMark = 0
       /\ deleted = {}
       /\ gone = {}
       /\ keyed = {}
       /\ mu = FreeMutex
       /\ threads = IdleThreads
       /\ stream = IdleStream
       /\ conv = IdleConv
       /\ svc = NewService

\* Events.Update of another client, between the Get and the Update call of
\* this client's UpdateEvent.
OtherClientUpdate(cal, id, body) ==
  /\ upd.pc = "fetched"
  /\ resp.op = "get"
  /\ UpdateStep(cal, id, body)

\* Events.Delete of another client, between the Get and the Update call of
\* this client's UpdateEvent.
OtherClientDelete(cal, id) ==
  /\ upd.pc = "fetched"
  /\ resp.op = "get"
  /\ DeleteStep(cal, id)

\* This client calls UpdateEvent once.
FirstUpdateCall == upd.pc = "idle" /\ resp.op # "clientUpdate"

NextUpdate ==
  \/ Tick
  \/ \E req \in UpdateRequests : FirstUpdateCall /\ ClientUpdateGetStep(req)
  \/ \E cal \in Calendars, id \in IdInputs, body \in UpdateBodies :
       OtherClientUpdate(cal, id, body)
  \/ \E cal \in Calendars, id \in IdInputs : OtherClientDelete(cal, id)
  \/ ClientUpdateReplaceStep

SpecUpdate == InitUpdate /\ [][NextUpdate]_vars

\* ------------------------------------------- handlers side by side
\* The operations of the server.
ServerOps ==
  {"insert", "update", "delete", "addEvent", "reset", "list", "get",
   "getEvents"}

\* Variant: every operation takes the read lock.
ExclusiveNever(op) == FALSE

\* TRUE for the operations that call s.mu.Lock(), FALSE for those that call
\* s.mu.RLock().
Exclusive(op) == op \in {"insert", "update", "delete", "addEvent", "reset"}

\* sync.RWMutex: Lock returns when nobody holds the mutex, RLock when no
\* writer holds it.
CanLock(m) == m.writer = 0 /\ m.readers = {}
CanRLock(m) == m.writer = 0

\* What the body of the operation does to the store once it holds the lock.
\* The requests are fixed: calendar "primary", identifier event1.
BodyOf(op, ev, nid, now, o) ==
  CASE op = "insert" -> insertEvent(ev, nid, now, "primary", Body(Standup))
    [] op = "update" ->
         updateEvent(ev, nid, now, "primary", EventId(1), Body(Review))
    [] op = "delete" -> deleteEvent(ev, nid, "primary", EventId(1))
    [] op = "addEvent" -> AddEventToServer(ev, nid, "primary", Seeded)
    [] op = "reset" -> ResetServer(ev, nid)
    [] op = "list" -> Outcome(ev, nid, listEvents(ev, "primary", NoQuery, o))
    [] op = "get" -> Outcome(ev, nid, getEvent(ev, "primary", EventId(1)))
    [] op = "getEvents" -> Outcome(ev, nid, GetEventsOf(ev, "primary", o))

\* A goroutine enters an operation: the code before the lock is taken
\* (insertEvent decodes its body there).
Arrive(t, op) ==
  /\ ops < MaxOps
  /\ threads[t].pc = "idle"
  /\ threads' = [threads EXCEPT ![t] = [pc |-> "arrived", op |-> op]]
  /\ ops' = ops + 1
  /\ UNCHANGED <<events, nextID, clock, resp, upd, pager, issued, resetMark,
                 deleted, gone, keyed, mu, stream, conv, svc>>

\* s.mu.Lock()
Lock(t) ==
  /\ threads[t].pc = "arrived"
  /\ Exclusive(threads[t].op)
  /\ CanLock(mu)
  /\ mu' = [mu EXCEPT !.writer = t]
  /\ threads' = [threads EXCEPT ![t].pc = "locked"]
  /\ UNCHANGED <<events, nextID, clock, resp, upd, pager, issued, resetMark,
                 deleted, gone, keyed, ops, stream, conv, svc>>

\* s.mu.RLock()
RLock(t) ==
  /\ threads[t].pc = "arrived"
  /\ ~Exclusive(threads[t].op)
  /\ CanRLock(mu)
  /\ mu' = [mu EXCEPT !.readers = @ \cup {t}]
  /\ threads' = [threads EXCEPT ![t].pc = "locked"]
  /\ UNCHANGED <<events, nextID, clock, resp, upd, pager, issued, resetMark,
                 deleted, gone, keyed, ops, stream, conv, svc>>

\* The body of the handler: it reads and writes s.events and s.nextID.
Access(t, o) ==
  /\ threads[t].pc = "locked"
  /\ LET out == BodyOf(threads[t].op, events, nextID, clock, o) IN
       /\ events' = out.events
       /\ nextID' = out.nextID
       /\ resp' = out.resp
  /\ threads' = [threads EXCEPT ![t].pc = "accessed"]
  /\ UNCHANGED <<clock, upd, pager, issued, resetMark, deleted, gone, keyed,
                 ops, mu, stream, conv, svc>>

\* The deferred s.mu.Unlock() or s.mu.RUnlock() when the handler returns.
Unlock(t) ==
  /\ threads[t].pc = "accessed"
  /\ mu' = [writer |-> IF mu.writer = t THEN 0 ELSE mu.writer,
            readers |-> mu.readers \ {t}]
  /\ threads' = [threads EXCEPT ![t] = [pc |-> "idle", op |-> "none"]]
  /\ UNCHANGED <<events, nextID, clock, resp, upd, pager, issued, resetMark,
                 deleted, gone, keyed, ops, stream, conv, svc>>

NextLock ==
  \/ \E t \in Threads, op \in ServerOps : Arrive(t, op)
  \/ \E t \in Threads : Lock(t)
  \/ \E t \in Threads : RLock(t)
  \/ \E t \in Threads : \E o \in CalOrders(events, "primary") : Access(t, o)
  \/ \E t \in Threads : Unlock(t)

SpecLock == Init /\ [][NextLock]_vars

\* ----------------------------------------------- Client.ListEvents
\* ts != nil && ts.IsValid() && ts.AsTime().Unix() > 0
RealTime(ts) == ts.set /\ ts.v > 0

\* hasExplicitTimes
HasExplicitTimes(req) == RealTime(req.after) \/ RealTime(req.before)

\* The timeMin the call is given, <<>> when TimeMin is not called.
TimeMinOf(req, nowUnix) ==
  IF HasExplicitTimes(req)
  THEN (IF RealTime(req.after) THEN FormatRFC3339(req.after.v) ELSE <<>>)
  ELSE IF req.future.set /\ req.future.v THEN FormatRFC3339(nowUnix)
  ELSE <<>>

\* The timeMax the call is given, <<>> when TimeMax is not called.
TimeMaxOf(req, nowUnix) ==
  IF HasExplicitTimes(req)
  THEN (IF RealTime(req.before) THEN FormatRFC3339(req.before.v) ELSE <<>>)
  ELSE IF req.future.set /\ req.future.v THEN <<>>
  ELSE IF req.past.set /\ req.past.v THEN FormatRFC3339(nowUnix)
  ELSE <<>>

\* hasTimeFilter: set in every branch that calls TimeMin or TimeMax.
HasTimeFilter(req) ==
  \/ HasExplicitTimes(req)
  \/ req.future.set /\ req.future.v
  \/ req.past.set /\ req.past.v

\* Variant: ordering is requested with every call.
OrderByAlways(req) == "startTime"

\* if hasTimeFilter { call = call.OrderBy("startTime") }
OrderByOf(req) == IF HasTimeFilter(req) THEN "startTime" ELSE ""

\* fmt.Sscanf(pageToken, "%d", &startIdx): the number the string starts
\* with, 0 when it starts with none.  Defined for the anchors of the model.
ScanInt(str) ==
  CASE str = "0" -> 0 [] str = "1" -> 1 [] str = "2" -> 2 [] str = "3" -> 3
    [] str = "4" -> 4 [] OTHER -> 0

\* The List call the goroutine builds: SingleEvents(true), the time filter,
\* OrderBy, MaxResults for a positive limit, PageToken for a non-empty anchor.
BuildListCall(req, nowUnix) ==
  [timeMin |-> TimeMinOf(req, nowUnix),
   timeMax |-> TimeMaxOf(req, nowUnix),
   maxResults |-> IF req.limit.set /\ req.limit.v > 0 THEN SomeInt(req.limit.v)
                  ELSE NilInt,
   pageToken |-> IF NonEmpty(req.anchor) THEN SomeInt(ScanInt(req.anchor.v))
                 ELSE NilInt,
   singleEvents |-> "true",
   orderBy |-> OrderByOf(req)]

\* Variant: the optional string is present whatever its value.
OptStrAlways(str) == SomeStr(str)

\* Optional protobuf string: present only for a non-empty value.
OptStr(str) == IF str # "" THEN SomeStr(str) ELSE NilStr

\* MapEventToProto, for the fields of calendar.Event that the model keeps.
MapEventToProto(event, calendarID) ==
  [id |-> event.id,
   summary |-> event.summary,
   htmlLink |-> event.htmlLink,
   calendarId |-> calendarID,
   description |-> OptStr(event.description),
   location |-> OptStr(event.location),
   status |-> OptStr(event.status),
   transparency |-> OptStr(event.transparency),
   sourceTitle |-> IF event.source.isNil THEN NilStr
                   ELSE OptStr(event.source.title),
   sourceUrl |-> IF event.source.isNil THEN NilStr
                 ELSE OptStr(event.source.url),
   startTime |-> IF event.start.isNil THEN NilTime
                 ELSE IF event.start.dateTime # <<>>
                 THEN SomeTime(ParseRFC3339(event.start.dateTime))
                 ELSE IF event.start.date # <<>>
                 THEN SomeTime(ParseDate(event.start.date))
                 ELSE NilTime,
   endTime |-> IF event.end.isNil THEN NilTime
               ELSE IF event.end.dateTime # <<>>
               THEN SomeTime(ParseRFC3339(event.end.dateTime))
               ELSE IF event.end.date # <<>>
               THEN SomeTime(ParseDate(event.end.date))
               ELSE NilTime]

\* The Event of a response that carries none.
NoProtoEvent == MapEventToProto(ZeroEvent, "")

\* &proto.ListEventsResponse{Event: ...} and {NextAnchor: ...}
EventItem(event, calendarID) ==
  [kind |-> "event", event |-> MapEventToProto(event, calendarID),
   nextAnchor |-> ""]
AnchorItem(token) ==
  [kind |-> "anchor", event |-> NoProtoEvent, nextAnchor |-> ToString(token.v)]

\* Variant: the response with the next anchor is sent first.
ResponsesAnchorFirst(items, token, calendarID) ==
  (IF token.set THEN <<AnchorItem(token)>> ELSE <<>>)
    \o [i \in 1..Len(items) |-> EventItem(items[i], calendarID)]

\* What the goroutine sends: one response per event of the page in the
\* order of the page, then one response with the next anchor when the page
\* has a next-page token.
ResponsesOf(items, token, calendarID) ==
  [i \in 1..Len(items) |-> EventItem(items[i], calendarID)]
    \o (IF token.set THEN <<AnchorItem(token)>> ELSE <<>>)

\* Requests of the ListEvents calls.
StreamRequests ==
  {ZeroListRequest,
   [ZeroListRequest EXCEPT !.limit = SomeInt(1)],
   [ZeroListRequest EXCEPT !.limit = SomeInt(1), !.anchor = SomeStr("1")],
   [ZeroListRequest EXCEPT !.future = SomeBool(TRUE)],
   [ZeroListRequest EXCEPT !.calendarId = SomeStr("work"),
                           !.anchor = SomeStr("2")]}
StreamBodies == {Standup, Holiday}

\* A server on which up to MaxPage events were inserted.
InitStream ==
  \E n \in 0..MaxPage : \E bs \in [1..n -> StreamBodies] :
    /\ events = InsertAll(bs).events
    /\ nextID = InsertAll(bs).nextID
    /\ issued = [i \in 1..n |-> EventId(i)]
    /\ ops = n + 1
    /\ clock = 0
    /\ resp = NoResp
    /\ upd = IdleUpdate
    /\ pager = IdlePager
    /\ resetMark = 0
    /\ deleted = {}
    /\ gone = {}
    /\ keyed = {}
    /\ mu = FreeMutex
    /\ threads = IdleThreads
    /\ stream = IdleStream
    /\ conv = IdleConv
    /\ svc = NewService

StreamFrame ==
  UNCHANGED <<events, nextID, clock, upd, pager, issued, resetMark, deleted,
              gone, keyed, ops, mu, threads, conv, svc>>

\* Client.ListEvents: make the channels and start the goroutine.
StreamStart(req) ==
  /\ stream.pc = "idle"
  /\ stream' = [stream EXCEPT !.pc = "started", !.req = req,
                              !.cal = CalendarOf(req)]
  /\ UNCHANGED resp
  /\ StreamFrame

\* The goroutine builds the call and runs call.Do().  With the context
\* cancelled, Do fails without sending the request; a request the server
\* does not answer with 200 fails as well.
StreamFetch(o) ==
  /\ stream.pc = "started"
  /\ IF stream.cancelled
     THEN /\ stream' = [stream EXCEPT !.pc = "erred", !.errs = @ + 1,
                                      !.err = "retrieve: context canceled"]
          /\ UNCHANGED resp
     ELSE LET call == BuildListCall(stream.req, NowUnix(clock))
              r == listEvents(events, stream.cal, call, o)
          IN /\ resp' = r
             /\ stream' =
                  IF r.status # "200"
                  THEN [stream EXCEPT !.pc = "erred", !.call = call,
                                      !.fetches = @ + 1, !.errs = @ + 1,
                                      !.err = "retrieve: failed"]
                  ELSE [stream EXCEPT !.pc = "sending", !.call = call,
                                      !.fetches = @ + 1, !.items = r.items,
                                      !.token = r.nextPageToken]
  /\ StreamFrame

\* The responses still to send.
Pending ==
  Len(stream.delivered) <
    Len(ResponsesOf(stream.items, stream.token, stream.cal))

\* select: the send on responseChan is chosen; the consumer receives.
StreamDeliver ==
  /\ stream.pc = "sending"
  /\ Pending
  /\ stream.consumer = "receiving"
  /\ stream' = [stream EXCEPT
       !.delivered =
          Append(@, ResponsesOf(stream.items, stream.token,
                                stream.cal)[Len(stream.delivered) + 1])]
  /\ UNCHANGED resp
  /\ StreamFrame

\* Variant: the send on responseChan is not in a select with ctx.Done().
StreamAbortMissing ==
  /\ FALSE
  /\ UNCHANGED vars

\* select: <-ctx.Done() is chosen; errChan <- ctx.Err() and return.
StreamAbort ==
  /\ stream.pc = "sending"
  /\ Pending
  /\ stream.cancelled
  /\ stream' = [stream EXCEPT !.pc = "erred", !.errs = @ + 1,
                              !.err = "context canceled"]
  /\ UNCHANGED resp
  /\ StreamFrame

\* The goroutine returns after errChan <- err: the deferred close(errChan)
\* and close(responseChan) run.
StreamClose ==
  /\ stream.pc = "erred"
  /\ stream' = [stream EXCEPT !.pc = "closed"]
  /\ UNCHANGED resp
  /\ StreamFrame

\* Variant: with a next-page token the goroutine fetches the next page.
StreamFinishOrNextPage ==
  /\ stream.pc = "sending"
  /\ ~Pending
  /\ stream' = IF stream.token.set
               THEN [stream EXCEPT
                       !.pc = "started",
                       !.req.anchor = SomeStr(ToString(stream.token.v)),
                       !.items = <<>>, !.token = NilInt, !.delivered = <<>>]
               ELSE [stream EXCEPT !.pc = "closed"]
  /\ UNCHANGED resp
  /\ StreamFrame

\* Nothing left to send: the goroutine returns and closes both channels.
StreamFinish ==
  /\ stream.pc = "sending"
  /\ ~Pending
  /\ stream' = [stream EXCEPT !.pc = "closed"]
  /\ UNCHANGED resp
  /\ StreamFrame

\* The caller's context is cancelled while the call runs.
StreamCancel ==
  /\ stream.pc \in {"started", "sending"}
  /\ ~stream.cancelled
  /\ stream' = [stream EXCEPT !.cancelled = TRUE,
                              !.cancelledAt = Len(stream.delivered)]
  /\ UNCHANGED resp
  /\ StreamFrame

\* calendarService.ListEvents, select: <-stream.Context().Done() is chosen.
ConsumerStop ==
  /\ stream.consumer = "receiving"
  /\ stream.pc # "idle"
  /\ stream.cancelled
  /\ stream' = [stream EXCEPT !.consumer = "returned", !.via = "ctx",
                              !.result = "context canceled"]
  /\ UNCHANGED resp
  /\ StreamFrame

\* calendarService.ListEvents: stream.Send(response) fails for the response
\* just received and the loop returns that error.
ConsumerSendFails ==
  /\ stream.consumer = "receiving"
  /\ Len(stream.delivered) > 0
  /\ stream' = [stream EXCEPT !.consumer = "returned", !.via = "send",
                              !.result = "failed to send response"]
  /\ UNCHANGED resp
  /\ StreamFrame

\* calendarService.ListEvents, select: err := <-errChan is chosen and err is
\* not nil.  (On the closed, empty errChan the receive gives nil and the
\* loop goes round: no step.)
ConsumerErr ==
  /\ stream.consumer = "receiving"
  /\ stream.pc \in {"erred", "closed"}
  /\ stream.err # ""
  /\ stream' = [stream EXCEPT !.consumer = "returned", !.via = "errChan",
                              !.result = stream.err]
  /\ UNCHANGED resp
  /\ StreamFrame

\* Variant: with responseChan closed the loop returns nil without reading
\* errChan.
ConsumerEndIgnoringErrChan ==
  /\ stream.consumer = "receiving"
  /\ stream.pc = "closed"
  /\ stream' = [stream EXCEPT !.consumer = "returned",
                              !.via = "responseChan", !.result = "nil"]
  /\ UNCHANGED resp
  /\ StreamFrame

\* calendarService.ListEvents, select: responseChan is closed.  errChan was
\* closed before it, so the inner select reads it: the error it holds is
\* returned when there is one, nil otherwise.
ConsumerEnd ==
  /\ stream.consumer = "receiving"
  /\ stream.pc = "closed"
  /\ stream' = [stream EXCEPT !.consumer = "returned",
                              !.via = "responseChan",
                              !.result = IF stream.err # "" THEN stream.err
                                         ELSE "nil"]
  /\ UNCHANGED resp
  /\ StreamFrame

NextStream ==
  \/ \E req \in StreamRequests : StreamStart(req)
  \/ \E o \in CalOrders(events, stream.cal) : StreamFetch(o)
  \/ StreamDeliver
  \/ StreamAbort
  \/ StreamFinish
  \/ StreamClose
  \/ StreamCancel
  \/ ConsumerStop
  \/ ConsumerSendFails
  \/ ConsumerErr
  \/ ConsumerEnd

SpecStream == InitStream /\ [][NextStream]_vars

\* The provider call returns: the goroutine does not stay in call.Do() for
\* ever.  StreamFetch is enabled exactly while pc is "started" and is the
\* only step that leaves it, so this is weak fairness of StreamFetch.
ProviderCallReturns == []<>(stream.pc # "started")

\* The goroutine is scheduled: the provider call returns, a select with a
\* ready case proceeds, a return runs the deferred closes.  The context is
\* eventually cancelled once the consumer has stopped receiving.
StreamFairness ==
  /\ ProviderCallReturns
  /\ WF_vars(StreamDeliver)
  /\ WF_vars(StreamAbort)
  /\ WF_vars(StreamFinish)
  /\ WF_vars(StreamClose)
  /\ WF_vars(stream.consumer = "returned" /\ StreamCancel)

SpecStreamLive == SpecStream /\ StreamFairness

\* ------------------------------------------- the mapping functions
\* Unix seconds of 2024-01-15T10:30:00Z and 2024-01-15T11:00:00Z.
U1030 == DayStart + 10 * 3600 + 30 * 60
U1100 == DayStart + 11 * 3600

\* Requests of Client.ListEvents: after and before absent, the zero
\* timestamp, one second before the epoch, a time of the day.
ListRequests ==
  {[calendarId |-> NilStr, after |-> a, before |-> b, future |-> f,
    past |-> p, limit |-> l, anchor |-> an] :
     a \in {NilTime, SomeTime(0), SomeTime(0 - 1), SomeTime(U1030)},
     b \in {NilTime, SomeTime(0), SomeTime(U1100)},
     f \in {NilBool, SomeBool(FALSE), SomeBool(TRUE)},
     p \in {NilBool, SomeBool(TRUE)},
     l \in {NilInt, SomeInt(0), SomeInt(1)},
     an \in {NilStr, SomeStr("1")}}

\* Requests of MapProtoToEvent.
AddMapRequests ==
  {[calendarId |-> NilStr, summary |-> "Planning", idempotencyKey |-> k,
    description |-> d, location |-> l, guestsCanSeeOtherGuests |-> gs,
    guestsCanModify |-> gm, guestsCanInviteOthers |-> gi,
    sourceTitle |-> st, sourceUrl |-> su, blocksTime |-> bt,
    startTime |-> t1, endTime |-> t2] :
     k \in {NilStr, SomeStr("key-1")},
     d \in {NilStr, SomeStr("Notes")},
     l \in {NilStr, SomeStr("")},
     gs \in {NilBool, SomeBool(FALSE), SomeBool(TRUE)},
     gm \in {NilBool, SomeBool(FALSE), SomeBool(TRUE)},
     gi \in {NilBool, SomeBool(FALSE)},
     st \in {NilStr, SomeStr("Doc")},
     su \in {NilStr, SomeStr("")},
     bt \in {NilBool, SomeBool(FALSE), SomeBool(TRUE)},
     t1 \in {NilTime, SomeTime(U1030)},
     t2 \in {NilTime, SomeTime(U1100)}}

\* Requests of MapProtoUpdateToEvent.
UpdateMapRequests ==
  {[calendarId |-> NilStr, eventId |-> "event1", summary |-> sm,
    description |-> d, location |-> l, guestsCanSeeOtherGuests |-> gs,
    guestsCanModify |-> gm, guestsCanInviteOthers |-> NilBool,
    sourceTitle |-> st, sourceUrl |-> NilStr, blocksTime |-> bt,
    startTime |-> t1, endTime |-> NilTime] :
     sm \in {NilStr, SomeStr(""), SomeStr("Retitled")},
     d \in {NilStr, SomeStr("")},
     l \in {NilStr, SomeStr("Room B")},
     gs \in {NilBool, SomeBool(FALSE)},
     gm \in {NilBool, SomeBool(FALSE), SomeBool(TRUE)},
     st \in {NilStr, SomeStr("")},
     bt \in {NilBool, SomeBool(FALSE)},
     t1 \in {NilTime, SomeTime(U1030)}}

\* Requests mapped to an event and back: optional strings absent, empty and
\* filled, and a start time with and without a fraction of a second.
\* A time with half a second, as timestamppb.New(time.Now()) gives.
FractionalStart == TimeAt(U1030, 500000000)
RoundTripRequests ==
  {[calendarId |-> NilStr, summary |-> "Planning", idempotencyKey |-> k,
    description |-> d, location |-> l, guestsCanSeeOtherGuests |-> NilBool,
    guestsCanModify |-> NilBool, guestsCanInviteOthers |-> NilBool,
    sourceTitle |-> st, sourceUrl |-> su, blocksTime |-> bt,
    startTime |-> t1, endTime |-> t2] :
     k \in {NilStr, SomeStr("key-1")},
     d \in {NilStr, SomeStr(""), SomeStr("Notes")},
     l \in {NilStr, SomeStr("Room A")},
     st \in {NilStr, SomeStr(""), SomeStr("Doc")},
     su \in {NilStr, SomeStr("https://example.com/doc")},
     bt \in {NilBool, SomeBool(FALSE), SomeBool(TRUE)},
     t1 \in {NilTime, SomeTime(U1030), FractionalStart},
     t2 \in {NilTime, SomeTime(U1100)}}

\* Events an update is applied to: one with every field filled, as
\* CreateEvent and Insert leave it, and an all-day event.
FilledEvent ==
  WithMetadata(
    [MapProtoToEvent(
       [ZeroAddRequest EXCEPT
          !.summary = "Planning", !.description = SomeStr("Notes"),
          !.location = SomeStr("Room A"),
          !.guestsCanSeeOtherGuests = SomeBool(TRUE),
          !.guestsCanModify = SomeBool(TRUE),
          !.guestsCanInviteOthers = SomeBool(TRUE),
          !.sourceTitle = SomeStr("Doc"),
          !.sourceUrl = SomeStr("https://example.com/doc"),
          !.blocksTime = SomeBool(TRUE),
          !.startTime = SomeTime(DayStart + 10 * 3600),
          !.endTime = SomeTime(U1100)],
       NowUnix(0)) EXCEPT !.id = ""],
    EventId(1), NowString(0))
ExistingEvents ==
  {FilledEvent, WithMetadata(Holiday, EventId(1), NowString(0))}

\* A program that calls one mapping function once, at some time.
InitMap ==
  /\ clock \in 0..MaxClock
  /\ events = NoCalendars
  /\ nextID = InitialNextID
  /\ resp = NoResp
  /\ upd = IdleUpdate
  /\ pager = IdlePager
  /\ issued = <<>>
  /\ resetMark = 0
  /\ deleted = {}
  /\ gone = {}
  /\ keyed = {}
  /\ ops = 0
  /\ mu = FreeMutex
  /\ threads = IdleThreads
  /\ stream = IdleStream
  /\ conv = IdleConv
  /\ svc = NewService

MapFrame ==
  UNCHANGED <<events, nextID, clock, resp, upd, pager, issued, resetMark,
              deleted, gone, keyed, ops, mu, threads, stream, svc>>

\* The call-building part of Client.ListEvents.
CallBuildListCall(req) ==
  /\ conv.pc = "idle"
  /\ conv' = [pc |-> "done", fn |-> "BuildListCall", req |-> req,
              now |-> NowUnix(clock),
              out |-> BuildListCall(req, NowUnix(clock))]
  /\ MapFrame

CallMapProtoToEvent(req) ==
  /\ conv.pc = "idle"
  /\ conv' = [pc |-> "done", fn |-> "MapProtoToEvent", req |-> req,
              now |-> NowUnix(clock),
              out |-> MapProtoToEvent(req, NowUnix(clock))]
  /\ MapFrame

CallMapProtoUpdateToEvent(req, existingEvent) ==
  /\ conv.pc = "idle"
  /\ conv' = [pc |-> "done", fn |-> "MapProtoUpdateToEvent", req |-> req,
              existing |-> existingEvent,
              out |-> MapProtoUpdateToEvent(req, existingEvent)]
  /\ MapFrame

\* MapProtoToEvent, then MapEventToProto of the event it built.
CallRoundTrip(req) ==
  /\ conv.pc = "idle"
  /\ conv' = [pc |-> "done", fn |-> "RoundTrip", req |-> req,
              now |-> NowUnix(clock),
              out |-> MapEventToProto(MapProtoToEvent(req, NowUnix(clock)),
                                      CalendarOf(req))]
  /\ MapFrame

NextMap ==
  \/ \E req \in ListRequests : CallBuildListCall(req)
  \/ \E req \in RoundTripRequests : CallRoundTrip(req)
  \/ \E req \in AddMapRequests : CallMapProtoToEvent(req)
  \/ \E req \in UpdateMapRequests, e \in ExistingEvents :
       CallMapProtoUpdateToEvent(req, e)

SpecMap == InitMap /\ [][NextMap]_vars

\* ------------------------------------------- the calendar service
ServiceMethods ==
  {"AddEvent", "UpdateEvent", "DeleteEvent", "GetEvent", "ListEvents"}

\* A method is called on goroutine t; ensureInitialized reads
\* s.calendarClient: set, it returns nil; nil, it goes on to
\* initializeGoogleCalendar.
ServiceCall(t, method) ==
  /\ ops < MaxOps
  /\ svc.call[t].pc = "idle"
  /\ svc' = [svc EXCEPT
       !.call[t] = [pc |-> IF svc.calendarClient # 0 THEN "ready"
                           ELSE "initializing",
                    method |-> method]]
  /\ ops' = ops + 1
  /\ UNCHANGED <<events, nextID, clock, resp, upd, pager, issued, resetMark,
                 deleted, gone, keyed, mu, threads, stream, conv>>

ServiceFrame ==
  UNCHANGED <<events, nextID, clock, resp, upd, pager, issued, resetMark,
              deleted, gone, keyed, ops, mu, threads, stream, conv>>

\* initializeGoogleCalendar on goroutine t: authentication and NewClient
\* succeed (ok) and svc.calendarClient is assigned, or one of them fails and
\* the error is returned with calendarClient untouched.
ServiceInitialize(t, ok) ==
  /\ svc.call[t].pc = "initializing"
  /\ svc' = IF ok
            THEN [svc EXCEPT !.calendarClient = svc.runs + 1,
                             !.runs = @ + 1,
                             !.replaced = @ \/ svc.calendarClient # 0,
                             !.call[t].pc = "ready"]
            ELSE [svc EXCEPT !.call[t].pc = "failed"]
  /\ ServiceFrame

\* The method returns: after its call on s.calendarClient, or with the
\* initialization error.
ServiceReturn(t) ==
  /\ svc.call[t].pc \in {"ready", "failed"}
  /\ svc' = [svc EXCEPT !.call[t] = [pc |-> "idle", method |-> "none"]]
  /\ ServiceFrame

NextService ==
  \/ \E t \in Threads, method \in ServiceMethods : ServiceCall(t, method)
  \/ \E t \in Threads, ok \in BOOLEAN : ServiceInitialize(t, ok)
  \/ \E t \in Threads : ServiceReturn(t)

SpecService == Init /\ [][NextService]_vars

\* ================================================================ claims
\* ---------------------------------------------------------------- C1
NoRepeat(seq, from) ==
  \A i, j \in (from + 1)..Len(seq) : i # j => seq[i] # seq[j]

\* C1 as stated: over the whole lifetime of the server no two Insert calls
\* return the same identifier, whatever happens between them.
C1_NeverReusedInLifetime == NoRepeat(issued, 0)

\* C1, amended: the Insert calls since the latest Reset (or since NewServer)
\* return pairwise different identifiers, whatever calendars they target and
\* whatever deletes happen between them.
C1_UniqueSinceReset == NoRepeat(issued, resetMark)

\* Two Inserts since the latest Reset, with a Delete before the second.
C1_Witness ==
  /\ Len(issued) >= resetMark + 2
  /\ deleted # {}
  /\ resp.op = "insert" /\ resp.status = "200"

\* ---------------------------------------------------------------- C3
\* C3: a Get or a Delete that directly follows a successful Delete of the
\* same identifier in the same calendar is answered 404.
C3_DeleteThenNotFound ==
  [][(/\ resp.op = "delete" /\ resp.status = "204"
      /\ resp'.op \in {"get", "delete"}
      /\ resp'.cal = resp.cal /\ resp'.id = resp.id
      /\ ops' = ops + 1)
     => resp'.status = "404"]_vars

\* A Get or second Delete answered 404 for an identifier deleted before.
C3_Witness ==
  /\ resp.op \in {"get", "delete"}
  /\ resp.status = "404"
  /\ <<resp.cal, resp.id>> \in deleted

\* ---------------------------------------------------------------- C4
\* Get, Update and Delete of id in cal are all answered 404.
Unresolvable(cal, id) ==
  /\ getEvent(events, cal, id).status = "404"
  /\ \A body \in UpdateBodies :
       updateEvent(events, nextID, clock, cal, id, body).resp.status = "404"
  /\ deleteEvent(events, nextID, cal, id).resp.status = "404"

LocationOnlyUpdateDone ==
  /\ upd.pc = "done" /\ upd.clean
  /\ resp.op = "clientUpdate" /\ resp.status = "200"
  /\ upd.req = [ZeroUpdateRequest EXCEPT !.eventId = upd.req.eventId,
                                         !.location = upd.req.location]
  /\ NonEmpty(upd.req.location)
  /\ upd.existing.created # <<>>

\* What a Get after the update returns.
AfterUpdate == getEvent(events, CalendarOf(upd.req), upd.req.eventId)

\* C5 as stated: Summary unchanged, Location changed, Created unchanged, and
\* Updated strictly later than the original Created.
C5_UpdatedStrictlyLater ==
  LocationOnlyUpdateDone =>
    /\ AfterUpdate.status = "200"
    /\ AfterUpdate.event.summary = upd.existing.summary
    /\ AfterUpdate.event.location = upd.req.location.v
    /\ AfterUpdate.event.created = upd.existing.created
    /\ StrLess(upd.existing.created, AfterUpdate.event.updated)

\* C5, amended: Summary unchanged, Location changed, Created unchanged, and
\* Updated not earlier than the original Created (equal to it when the update
\* is served in the same second as the insert).
C5_UpdatedNotEarlier ==
  LocationOnlyUpdateDone =>
    /\ AfterUpdate.status = "200"
    /\ AfterUpdate.event.summary = upd.existing.summary
    /\ AfterUpdate.event.location = upd.req.location.v
    /\ AfterUpdate.event.created = upd.existing.created
    /\ ~StrLess(AfterUpdate.event.updated, upd.existing.created)

\* Such an update, served in a later second than the insert, changed the
\* location of an event that had another one.
C5_Witness ==
  /\ LocationOnlyUpdateDone
  /\ upd.existing.location = "Room A"
  /\ AfterUpdate.event.location = "Room B"
  /\ StrLess(upd.existing.created, AfterUpdate.event.updated)

\* ---------------------------------------------------------------- C6
\* C6: a Get that directly follows a successful Insert, by the identifier the
\* Insert returned, returns the inserted Summary, Status "confirmed", a
\* non-empty HtmlLink and Created equal to Updated.
C6_GetAfterInsert ==
  [][(/\ resp.op \in {"insert", "create"} /\ resp.status = "200"
      /\ resp'.op = "get"
      /\ resp'.cal = resp.cal /\ resp'.id = resp.id
      /\ ops' = ops + 1)
     => /\ resp'.status = "200"
        /\ resp'.event.summary = resp.sent.summary
        /\ resp'.event.status = "confirmed"
        /\ resp'.event.htmlLink # ""
        /\ resp'.event.created = resp'.event.updated
        /\ resp'.event.created # <<>>]_vars

\* A Get found, as the second operation, the event that the first operation,
\* an Insert of a body with its own status and creation time, stored.
C6_Witness ==
  /\ ops = 2
  /\ resp.op = "get" /\ resp.status = "200"
  /\ issued = <<resp.id>>
  /\ resp.event.summary = "Review"
  /\ resp.event.status = "confirmed"

\* ---------------------------------------------------------------- C9
\* C9 as stated: the key of a keyed CreateEvent becomes the identifier of the
\* event, and a calendar never holds two events created with one key.
C9_OneEventPerKey ==
  \A k1, k2 \in keyed :
    (/\ k1.cal = k2.cal /\ k1.key = k2.key
     /\ HasEvent(events, k1.cal, k1.id) /\ HasEvent(events, k2.cal, k2.id))
    => (k1.id = k2.id /\ k1.id = k1.key)

\* --------------------------------------------------------------- C10
\* C10: after Reset the store has no calendar and the counter has its
\* initial value: List and GetEvents of every calendar yield no events and
\* the next Insert returns "event1".
C10_ResetIsInitial ==
  resp.op = "reset" =>
    /\ events = NoCalendars
    /\ nextID = InitialNextID
    /\ \A cal \in Calendars :
         /\ CalOrders(events, cal) = {<<>>}
         /\ \A q \in ListQueries : listEvents(events, cal, q, <<>>).items = <<>>
         /\ GetEventsOf(events, cal, <<>>).items = <<>>
         /\ \A body \in InsertBodies :
              body.valid =>
                insertEvent(events, nextID, clock, cal, body).resp.id = "event1"

\* A Reset of a server that had handed out two identifiers.
C10_Witness ==
  /\ resp.op = "reset"
  /\ Len(issued) >= 2

\* ---------------------------------------------------------------- C2
RECURSIVE Flatten(_)
Flatten(pages) ==
  IF pages = <<>> THEN <<>> ELSE Head(pages) \o Flatten(Tail(pages))

\* The paging loop runs over a calendar with more events than fit in a page.
PagingLargeCalendar ==
  /\ pager.pc \in {"paging", "done", "failed"}
  /\ pager.total > pager.query.maxResults.v

\* C2 as stated: paging with maxResults = k through a calendar of n > k
\* events that does not change, the first page has k events and a cursor,
\* every later page but the last has k events, the last has no cursor, and
\* the pages together hold every event of the calendar exactly once.
C2_PagesPartitionCalendar ==
  PagingLargeCalendar =>
    /\ pager.pc # "failed"
    /\ Len(pager.pages[1]) = pager.query.maxResults.v
    /\ pager.tokens[1].set
    /\ \A i \in 1..Len(pager.pages) :
         pager.tokens[i].set => Len(pager.pages[i]) = pager.query.maxResults.v
    /\ pager.pc = "done" =>
         /\ Len(Flatten(pager.pages)) = pager.total
         /\ \A id \in DOMAIN events[pager.cal] :
              \E i \in 1..pager.total : Flatten(pager.pages)[i] = id

\* ---------------------------------------------------------------- C7
\* The events of the calendar the latest List asked for.
ListedCalendar ==
  IF HasCal(events, resp.cal) THEN events[resp.cal] ELSE EmptyMap

TimeMinAboveEveryDateTime ==
  /\ resp.op = "list"
  /\ resp.query.timeMin # <<>>
  /\ \A id \in DOMAIN ListedCalendar :
       /\ ~ListedCalendar[id].start.isNil
       /\ ListedCalendar[id].start.dateTime # <<>>
       /\ StrLess(ListedCalendar[id].start.dateTime, resp.query.timeMin)

SortedListAnswered ==
  /\ resp.op = "list" /\ resp.status = "200"
  /\ resp.query.singleEvents = "true" /\ resp.query.orderBy = "startTime"

\* C8 as stated: with singleEvents=true and orderBy=startTime the returned
\* events are in non-decreasing order of their start time.
C8_SortedByStartTime ==
  SortedListAnswered =>
    \A i, j \in 1..Len(resp.items) :
      (i < j /\ ~resp.items[i].start.isNil /\ ~resp.items[j].start.isNil)
      => StartTimeOf(resp.items[i]) <= StartTimeOf(resp.items[j])

\* C8, amended: with singleEvents=true and orderBy=startTime the returned
\* events are in non-decreasing byte-wise order of their resolved start
\* string (Start.DateTime when present, Start.Date otherwise, "" without a
\* Start); this is the order of their start times when all stored starts
\* are timestamps with one UTC offset.
C8_SortedByStartString ==
  SortedListAnswered =>
    \A i, j \in 1..Len(resp.items) :
      i < j => ~StrLess(ResolvedStart(resp.items[j]),
                        ResolvedStart(resp.items[i]))

\* A sorted List returned three events with three different resolved starts,
\* the one inserted first being the last.
C8_Witness ==
  /\ SortedListAnswered
  /\ Len(resp.items) = 3
  /\ resp.items[3].id = "event1"
  /\ StrLess(ResolvedStart(resp.items[1]), ResolvedStart(resp.items[2]))
  /\ StrLess(ResolvedStart(resp.items[2]), ResolvedStart(resp.items[3]))

\* --------------------------------------------------------------- C11
\* C11: an Insert, Update, Delete or AddEvent (raw or through the client)
\* that targets one calendar leaves every other calendar as it was: it
\* exists afterwards exactly when it existed before, with the same events.
C11_OtherCalendarsUnchanged ==
  [][(/\ resp'.op \in {"insert", "update", "delete", "addEvent", "create",
                       "clientUpdate"}
      /\ ops' = ops + 1)
     => \A c \in Calendars \ {resp'.cal} :
          /\ HasCal(events', c) <=> HasCal(events, c)
          /\ HasCal(events, c) => events'[c] = events[c]]_vars

\* A Delete succeeded in one calendar while another calendar holds an event.
C11_Witness ==
  /\ resp.op = "delete" /\ resp.status = "204"
  /\ \E c \in Calendars \ {resp.cal} :
       HasCal(events, c) /\ DOMAIN events[c] # {}

\* --------------------------------------------------------------- C12
\* The goroutine is between taking the lock and releasing it, where the
\* handler reads and writes the store and the counter.
InHandlerBody(t) == threads[t].pc \in {"locked", "accessed"}

\* The operations that change the store or the counter.
MutatingOps == {"insert", "update", "delete", "addEvent", "reset"}

\* C12: while an insert, update, delete, direct add or reset is in its
\* body no other operation is in its body; list, get and direct enumerate
\* overlap only with each other.  Every operation in its body holds the lock.
C12_LockExcludesWriters ==
  /\ \A t, u \in Threads :
       (t # u /\ InHandlerBody(t) /\ InHandlerBody(u))
       => (threads[t].op \notin MutatingOps /\ threads[u].op \notin MutatingOps)
  /\ \A t \in Threads :
       InHandlerBody(t) =>
         IF threads[t].op \in MutatingOps
         THEN mu.writer = t /\ mu.readers = {}
         ELSE t \in mu.readers /\ mu.writer = 0

\* A list and a get are in their bodies at the same time.
C12_ReadersOverlap ==
  \E t, u \in Threads :
    /\ t # u /\ InHandlerBody(t) /\ InHandlerBody(u)
    /\ threads[t].op = "list" /\ threads[u].op = "get"

\* An insert is in its body while a get waits for the lock.
C12_Witness ==
  \E t, u \in Threads :
    /\ InHandlerBody(t) /\ threads[t].op = "insert"
    /\ threads[u].pc = "arrived" /\ threads[u].op = "get"

\* --------------------------------------------------------------- C13
\* A Client.UpdateEvent finished after another update of the same event was
\* served between its Get and its Update call.
OvertakenUpdateDone ==
  /\ upd.pc = "done" /\ ~upd.clean
  /\ resp.op = "clientUpdate"
  /\ HasEvent(events, resp.cal, resp.id)

\* C13: the replace of the overtaken call succeeds, and the stored event is
\* the fetched event with the fields of this request: a field the request
\* does not carry has the value this call fetched, not the one the other
\* client wrote.
C13_LastWriteWins ==
  OvertakenUpdateDone =>
    /\ resp.status = "200"
    /\ events[resp.cal][resp.id] =
         [MapProtoUpdateToEvent(upd.req, upd.existing) EXCEPT
            !.updated = events[resp.cal][resp.id].updated]
    /\ ~NonEmpty(upd.req.summary) =>
         events[resp.cal][resp.id].summary = upd.existing.summary
    /\ ~NonEmpty(upd.req.location) =>
         events[resp.cal][resp.id].location = upd.existing.location

\* The other client renamed the event after this call fetched it, and the
\* stored event has the old summary again.
C13_Witness ==
  /\ OvertakenUpdateDone
  /\ resp.status = "200"
  /\ upd.existing.summary = "Review"
  /\ events[resp.cal][resp.id].summary = "Review"
  /\ events[resp.cal][resp.id].location = "Room B"

\* --------------------------------------------------------------- C14
\* The number of responses a fetched page calls for.
ResponsesDue ==
  Len(stream.items) + (IF stream.token.set THEN 1 ELSE 0)

\* C14: in a ListEvents call that is not cancelled the consumer receives the
\* events of the fetched page one response each, in the order of the page,
\* then one response with the next anchor exactly when the page has a
\* next-page token; when the goroutine has returned without error, all of
\* them were received.
C14_OneItemPerEventThenAnchor ==
  ~stream.cancelled =>
    /\ Len(stream.delivered) <= ResponsesDue
    /\ \A i \in 1..Len(stream.delivered) :
         IF i <= Len(stream.items)
         THEN /\ stream.delivered[i].kind = "event"
              /\ stream.delivered[i].event =
                   MapEventToProto(stream.items[i], stream.cal)
              /\ stream.delivered[i].event.id = stream.items[i].id
         ELSE /\ stream.delivered[i].kind = "anchor"
              /\ stream.token.set
              /\ stream.delivered[i].nextAnchor = ToString(stream.token.v)
    /\ (stream.pc = "closed" /\ stream.err = "") =>
         Len(stream.delivered) = ResponsesDue

\* An uncancelled call ended after the consumer received an event and the
\* next anchor.
C14_Witness ==
  /\ ~stream.cancelled
  /\ stream.pc = "closed" /\ stream.result = "nil"
  /\ Len(stream.items) >= 1 /\ stream.token.set
  /\ Len(stream.delivered) = Len(stream.items) + 1

\* --------------------------------------------------------------- C15
\* C15 as stated: once the context is cancelled no further response reaches
\* the consumer, and the call returns a cancellation error.
C15_CancelStopsDelivery ==
  stream.cancelled =>
    /\ Len(stream.delivered) = stream.cancelledAt
    /\ stream.consumer = "returned" =>
         stream.result \in {"context canceled", "retrieve: context canceled"}

\* --------------------------------------------------------------- C16
\* C16: a ListEvents call sends at most one List request, and exactly one
\* once call.Do() has run with a live context, whatever the number of events
\* and whether or not the answer has a next-page token.
C16_OneRequestPerCall ==
  /\ stream.fetches <= 1
  /\ (stream.pc \in {"sending", "closed"}
      /\ stream.err # "retrieve: context canceled") => stream.fetches = 1

\* A call ended with a next-page token in hand and a second event in the
\* calendar, after one request.
C16_Witness ==
  /\ stream.pc = "closed" /\ stream.err = ""
  /\ stream.token.set
  /\ Cardinality(DOMAIN events[stream.cal]) >= 2
  /\ stream.fetches = 1

\* --------------------------------------------------------------- C17
Built == conv.pc = "done" /\ conv.fn = "BuildListCall"

\* The timestamp is supplied and is not the zero timestamp.
Supplied(ts) == ts.set /\ ts.v # 0

\* The call has this bound: not empty, the formatted time ts where the model
\* can format it (times of 2024-01-15), and not the current time when ts is
\* before that day.
BoundIs(bound, ts, now) ==
  /\ bound # <<>>
  /\ ts >= DayStart => bound = FormatRFC3339(ts)
  /\ ts < DayStart => bound # FormatRFC3339(now)

\* C17 as stated: with a non-zero after or before supplied, timeMin is after
\* and timeMax is before, each exactly when supplied, whatever the flags;
\* otherwise future gives timeMin = now only; otherwise past gives
\* timeMax = now only; otherwise the call has no time bound.
C17_TimeFilterPrecedence ==
  Built =>
    IF Supplied(conv.req.after) \/ Supplied(conv.req.before)
    THEN /\ IF Supplied(conv.req.after)
            THEN BoundIs(conv.out.timeMin, conv.req.after.v, conv.now)
            ELSE conv.out.timeMin = <<>>
         /\ IF Supplied(conv.req.before)
            THEN BoundIs(conv.out.timeMax, conv.req.before.v, conv.now)
            ELSE conv.out.timeMax = <<>>
    ELSE IF conv.req.future.set /\ conv.req.future.v
    THEN BoundIs(conv.out.timeMin, conv.now, conv.now) /\ conv.out.timeMax = <<>>
    ELSE IF conv.req.past.set /\ conv.req.past.v
    THEN conv.out.timeMin = <<>> /\ BoundIs(conv.out.timeMax, conv.now, conv.now)
    ELSE conv.out.timeMin = <<>> /\ conv.out.timeMax = <<>>

\* --------------------------------------------------------------- C18
\* C18: the built call asks for orderBy=startTime exactly when it carries a
\* timeMin or a timeMax.
C18_OrderByIffTimeFilter ==
  Built =>
    ((conv.out.orderBy = "startTime")
       <=> (conv.out.timeMin # <<>> \/ conv.out.timeMax # <<>>))
    /\ conv.out.orderBy \in {"", "startTime"}

\* A call built from the past flag alone: timeMax only, ordered.
C18_Witness ==
  /\ Built
  /\ conv.req.past = SomeBool(TRUE) /\ ~conv.req.after.set
  /\ conv.out.timeMin = <<>> /\ conv.out.timeMax # <<>>
  /\ conv.out.orderBy = "startTime"

\* --------------------------------------------------------------- C19
Patched == conv.pc = "done" /\ conv.fn = "MapProtoUpdateToEvent"

\* The fields of the event that an update request cannot name.
UnpatchedFields == {"id", "status", "created", "updated", "htmlLink"}

\* The guest flags, the source, the transparency and the times of the
\* result carry the update's value when present and the existing event's
\* value when absent, and the unnamed fields are the existing event's.
OtherFieldsPatched(req, old, new) ==
  /\ new.guestsCanSeeOtherGuests =
       IF req.guestsCanSeeOtherGuests.set
       THEN SomeBool(req.guestsCanSeeOtherGuests.v)
       ELSE old.guestsCanSeeOtherGuests
  /\ new.guestsCanModify =
       IF req.guestsCanModify.set THEN req.guestsCanModify.v
       ELSE old.guestsCanModify
  /\ new.guestsCanInviteOthers =
       IF req.guestsCanInviteOthers.set
       THEN SomeBool(req.guestsCanInviteOthers.v)
       ELSE old.guestsCanInviteOthers
  /\ new.source.title =
       IF req.sourceTitle.set THEN req.sourceTitle.v ELSE old.source.title
  /\ new.source.url =
       IF req.sourceUrl.set THEN req.sourceUrl.v ELSE old.source.url
  /\ (~req.sourceTitle.set /\ ~req.sourceUrl.set) => new.source = old.source
  /\ new.transparency =
       IF req.blocksTime.set
       THEN (IF req.blocksTime.v THEN "opaque" ELSE "transparent")
       ELSE old.transparency
  /\ IF req.startTime.set
     THEN new.start.dateTime = FormatRFC3339(req.startTime.v)
          /\ new.start.date = <<>>
     ELSE new.start = old.start
  /\ IF req.endTime.set
     THEN new.end.dateTime = FormatRFC3339(req.endTime.v)
          /\ new.end.date = <<>>
     ELSE new.end = old.end
  /\ \A f \in UnpatchedFields : new[f] = old[f]

\* C19 as stated: every field of the result carries the update's value when
\* the field is present in the update, the empty string included, and the
\* existing event's value when it is absent; nothing else changes.
C19_PresentFieldOverwrites ==
  Patched =>
    /\ conv.out.summary =
         IF conv.req.summary.set THEN conv.req.summary.v
         ELSE conv.existing.summary
    /\ conv.out.description =
         IF conv.req.description.set THEN conv.req.description.v
         ELSE conv.existing.description
    /\ conv.out.location =
         IF conv.req.location.set THEN conv.req.location.v
         ELSE conv.existing.location
    /\ OtherFieldsPatched(conv.req, conv.existing, conv.out)

\* C19, amended: summary, description and location carry the update's value
\* when it is present and not empty, and the existing event's value when it
\* is absent or the empty string; the guest flags (false included), the
\* source title and URL (empty included), the transparency and the times
\* carry the update's value when present and the existing value when absent;
\* nothing else changes.
C19_SparsePatch ==
  Patched =>
    /\ conv.out.summary =
         IF conv.req.summary.set /\ conv.req.summary.v # ""
         THEN conv.req.summary.v ELSE conv.existing.summary
    /\ conv.out.description =
         IF conv.req.description.set /\ conv.req.description.v # ""
         THEN conv.req.description.v ELSE conv.existing.description
    /\ conv.out.location =
         IF conv.req.location.set /\ conv.req.location.v # ""
         THEN conv.req.location.v ELSE conv.existing.location
    /\ OtherFieldsPatched(conv.req, conv.existing, conv.out)

\* An update of the filled event with an empty summary, no description, an
\* explicit guestsCanModify = false and an empty source title: the summary
\* and the description are the existing ones, the flag and the title are
\* the update's.
C19_Witness ==
  /\ Patched
  /\ conv.existing = FilledEvent
  /\ conv.req.summary = SomeStr("") /\ ~conv.req.description.set
  /\ conv.req.guestsCanModify = SomeBool(FALSE)
  /\ conv.req.sourceTitle = SomeStr("")
  /\ conv.out.summary = "Planning" /\ conv.out.description = "Notes"
  /\ conv.existing.guestsCanModify /\ ~conv.out.guestsCanModify
  /\ conv.existing.source.title = "Doc" /\ conv.out.source.title = ""
  /\ conv.out.source.url = conv.existing.source.url

\* --------------------------------------------------------------- C20
Mapped == conv.pc = "done" /\ conv.fn = "MapProtoToEvent"

\* The description, the location, the identifier, the guest flags and the
\* source of the event are unset when the request does not carry them.
MissingTextAndFlagsUnset(req, event) ==
  /\ ~req.description.set => event.description = ""
  /\ ~req.location.set => event.location = ""
  /\ ~req.idempotencyKey.set => event.id = ""
  /\ ~req.guestsCanSeeOtherGuests.set => event.guestsCanSeeOtherGuests = NilBool
  /\ ~req.guestsCanInviteOthers.set => event.guestsCanInviteOthers = NilBool
  /\ ~req.guestsCanModify.set => event.guestsCanModify = FALSE
  /\ ~req.sourceTitle.set => event.source.title = ""
  /\ ~req.sourceUrl.set => event.source.url = ""
  /\ (~req.sourceTitle.set /\ ~req.sourceUrl.set) => event.source = NilSource

RoundTripped == conv.pc = "done" /\ conv.fn = "RoundTrip"

\* The optional string of the request came back with the value it carried.
CameBack(field, back) == field.set => back = SomeStr(field.v)

\* The transparency that blocks_time stands for.
TransparencyFor(blocksTime) ==
  IF blocksTime.set /\ blocksTime.v THEN "opaque" ELSE "transparent"

\* C21 as stated: every field present in the request comes back from
\* MapEventToProto(MapProtoToEvent(req)) with the value the request carried:
\* summary, description, location, start, end, source title and URL, the
\* identifier from the idempotency key and the transparency of blocks_time.
C21_RoundTripsPresentFields ==
  RoundTripped =>
    /\ conv.out.summary = conv.req.summary
    /\ CameBack(conv.req.description, conv.out.description)
    /\ CameBack(conv.req.location, conv.out.location)
    /\ CameBack(conv.req.sourceTitle, conv.out.sourceTitle)
    /\ CameBack(conv.req.sourceUrl, conv.out.sourceUrl)
    /\ conv.req.idempotencyKey.set => conv.out.id = conv.req.idempotencyKey.v
    /\ conv.req.blocksTime.set =>
         conv.out.transparency = SomeStr(TransparencyFor(conv.req.blocksTime))
    /\ conv.req.startTime.set => conv.out.startTime = conv.req.startTime
    /\ conv.req.endTime.set => conv.out.endTime = conv.req.endTime

\* The optional string came back when the request carried a non-empty one
\* and is absent otherwise.
CameBackNonEmpty(field, back) ==
  back = IF field.set /\ field.v # "" THEN SomeStr(field.v) ELSE NilStr

\* C21, amended: the summary, every non-empty description, location, source
\* title, source URL and idempotency key, and the transparency of blocks_time
\* come back with the value the request carried; an optional string that is
\* present but empty comes back absent; a start or end time comes back cut
\* to the whole second.
C21_RoundTripsUpToSeconds ==
  RoundTripped =>
    /\ conv.out.summary = conv.req.summary
    /\ CameBackNonEmpty(conv.req.description, conv.out.description)
    /\ CameBackNonEmpty(conv.req.location, conv.out.location)
    /\ CameBackNonEmpty(conv.req.sourceTitle, conv.out.sourceTitle)
    /\ CameBackNonEmpty(conv.req.sourceUrl, conv.out.sourceUrl)
    /\ conv.out.id = conv.req.idempotencyKey.v
    /\ conv.out.transparency = SomeStr(TransparencyFor(conv.req.blocksTime))
    /\ conv.req.startTime.set =>
         conv.out.startTime = SomeTime(conv.req.startTime.v)
    /\ conv.req.endTime.set => conv.out.endTime = SomeTime(conv.req.endTime.v)

\* A request whose start time has half a second and whose description is
\* present and empty went there and back.
C21_Witness ==
  /\ RoundTripped
  /\ conv.req.startTime = FractionalStart
  /\ conv.out.startTime = SomeTime(U1030)
  /\ conv.req.description = SomeStr("") /\ conv.out.description = NilStr
  /\ conv.req.sourceTitle = SomeStr("Doc")
  /\ conv.out.sourceTitle = SomeStr("Doc")
  /\ conv.req.idempotencyKey = SomeStr("key-1") /\ conv.out.id = "key-1"

\* --------------------------------------------------------------- C22
\* C22: MapProtoToEvent always writes the transparency: "opaque" exactly
\* when blocks_time is present and true, "transparent" when it is false or
\* absent, never the empty string.
C22_TransparencyAlwaysWritten ==
  Mapped =>
    /\ conv.out.transparency \in {"opaque", "transparent"}
    /\ (conv.out.transparency = "opaque")
         <=> (conv.req.blocksTime.set /\ conv.req.blocksTime.v)

\* A request without blocks_time was mapped to a transparent event.
C22_Witness ==
  /\ Mapped
  /\ ~conv.req.blocksTime.set
  /\ conv.req.description.set /\ conv.req.startTime.set
  /\ conv.out.transparency = "transparent"

\* --------------------------------------------------------------- C23
\* The step is a direct Update that the server answered 200.
UpdateSucceeds ==
  ops' = ops + 1 /\ resp'.op = "update" /\ resp'.status = "200"

\* Every event other than the one at resp'.cal, resp'.id is stored
\* unchanged after the step, and no event appeared or went away.
OnlyAddressedEventChanges ==
  /\ DOMAIN events' = DOMAIN events
  /\ \A c \in DOMAIN events :
       /\ DOMAIN events'[c] = DOMAIN events[c]
       /\ \A i \in DOMAIN events[c] :
            <<c, i>> # <<resp'.cal, resp'.id>> => events'[c][i] = events[c][i]

\* C23 as stated: after a successful Update the stored event is the request
\* body, except that it has the identifier of the URL, the creation
\* timestamp it had before and the current time as update timestamp; no
\* other event changes.
C23_UpdateReplacesWholesale ==
  [][UpdateSucceeds =>
       /\ events'[resp'.cal][resp'.id] =
            [resp'.sent EXCEPT
               !.id = resp'.id,
               !.created = events[resp'.cal][resp'.id].created,
               !.updated = NowString(clock)]
       /\ OnlyAddressedEventChanges]_vars

\* C23, amended: after a successful Update the stored event is the request
\* body, except that it has the identifier of the URL, the creation
\* timestamp and the HTML link it had before and the current time, in whole
\* seconds, as update timestamp; no other event changes.
C23_UpdateKeepsIdCreatedLink ==
  [][UpdateSucceeds =>
       /\ events'[resp'.cal][resp'.id] =
            [resp'.sent EXCEPT
               !.id = resp'.id,
               !.created = events[resp'.cal][resp'.id].created,
               !.htmlLink = events[resp'.cal][resp'.id].htmlLink,
               !.updated = NowString(clock)]
       /\ OnlyAddressedEventChanges]_vars

\* An Update whose body names another identifier, creation timestamp and
\* link succeeded while a second event was stored.
C23_Witness ==
  /\ resp.op = "update" /\ resp.status = "200"
  /\ resp.sent.id = "other" /\ resp.sent.id # resp.id
  /\ events[resp.cal][resp.id].summary = "Renamed"
  /\ events[resp.cal][resp.id].id = resp.id
  /\ events[resp.cal][resp.id].created # resp.sent.created
  /\ events[resp.cal][resp.id].htmlLink # resp.sent.htmlLink
  /\ \E c \in DOMAIN events : \E i \in DOMAIN events[c] :
       <<c, i>> # <<resp.cal, resp.id>>

\* --------------------------------------------------------------- C24
\* The step is a direct Insert that the server answered 200.
InsertSucceeds ==
  ops' = ops + 1 /\ resp'.op = "insert" /\ resp'.status = "200"

\* The events of calendar c before the step (none when the calendar does
\* not exist yet).
StoredIn(ev, c) == IF c \in DOMAIN ev THEN DOMAIN ev[c] ELSE {}

\* C24 as stated: a successful Insert adds exactly one event to the target
\* calendar, and every event stored before it, whoever stored it, is still
\* present and unchanged.
C24_InsertNeverOverwrites ==
  [][InsertSucceeds =>
       /\ \A c \in DOMAIN events : \A i \in DOMAIN events[c] :
            /\ c \in DOMAIN events'
            /\ i \in DOMAIN events'[c]
            /\ events'[c][i] = events[c][i]
       /\ Cardinality(StoredIn(events', resp'.cal))
            = Cardinality(StoredIn(events, resp'.cal)) + 1]_vars

\* --------------------------------------------------------------- C25
\* The number of events of the listed calendar that pass the time filter of
\* the latest List request (the same in every order the map is visited in).
MatchingListed ==
  Len(FilterEvents(IF HasCal(events, resp.cal) THEN events[resp.cal]
                   ELSE EmptyMap,
                   CHOOSE o \in CalOrders(events, resp.cal) : TRUE,
                   resp.query.timeMin, resp.query.timeMax))

\* C25 as stated: for every store and every pageToken and maxResults of a
\* List request the page bounds satisfy 0 <= start <= end <= number of
\* matching events, and List answers with a page.
C25_PageBoundsInRange ==
  resp.op = "list" =>
    /\ 0 <= PageStart(resp.query)
    /\ PageStart(resp.query) <= PageEnd(resp.query, MatchingListed)
    /\ PageEnd(resp.query, MatchingListed) <= MatchingListed
    /\ resp.status = "200"

\* --------------------------------------------------------------- C26
\* A Client.UpdateEvent finished whose event was deleted between its Get and
\* its Update call.
UpdateOfDeletedDone ==
  /\ upd.pc = "done"
  /\ <<CalendarOf(upd.req), upd.req.eventId>> \in deleted

\* C26: when the event is deleted between the Get and the replace call of a
\* client's UpdateEvent, the replace is answered not-found (the call returns
\* an error) and the event is still absent from the store afterwards.
C26_UpdateNeverRecreates ==
  UpdateOfDeletedDone =>
    /\ resp.op = "clientUpdate" /\ resp.status = "404"
    /\ ~HasEvent(events, CalendarOf(upd.req), upd.req.eventId)

\* The Review event was fetched, deleted by the other client, and the
\* replace failed.
C26_Witness ==
  /\ UpdateOfDeletedDone
  /\ upd.existing.summary = "Review"
  /\ upd.req.location = SomeStr("Room B")
  /\ resp.status = "404"
  /\ ~HasEvent(events, "primary", upd.req.eventId)

\* --------------------------------------------------------------- C27
\* C27: when the producer has put an error on errChan, the service's loop
\* never returns nil, whichever case of its select makes it return; it
\* returns nil only after the producer finished without an error.
C27_ProducerErrorNeverLost ==
  stream.consumer = "returned" =>
    /\ stream.result # ""
    /\ stream.errs > 0 => stream.result # "nil"
    /\ stream.result = "nil" =>
         (stream.pc = "closed" /\ stream.errs = 0 /\ stream.err = "")

\* The provider call failed and the loop returned that error from the
\* closed response channel's inner select.
C27_Witness ==
  /\ stream.consumer = "returned"
  /\ ~stream.cancelled
  /\ stream.errs = 1 /\ stream.err = "retrieve: failed"
  /\ stream.via = "responseChan"
  /\ stream.result = "retrieve: failed"

\* --------------------------------------------------------------- C28
\* C28: a started producer goroutine eventually has returned with both
\* channels closed, given that the provider call returns and that the
\* consumer keeps receiving or the context is eventually cancelled; and it
\* sends at most one error on the one-slot errChan.
C28_ProducerTerminates ==
  /\ [](stream.errs <= 1)
  /\ (stream.pc = "started") ~> (stream.pc = "closed")

\* The consumer stopped receiving after a failed Send with responses still
\* to come; the context was cancelled and the goroutine returned with one
\* error sent.
C28_Witness ==
  /\ stream.pc = "closed"
  /\ stream.via = "send"
  /\ stream.cancelled /\ stream.cancelledAt < ResponsesDue
  /\ stream.errs = 1 /\ stream.err = "context canceled"

\* --------------------------------------------------------------- C29
\* C29 as stated: whatever the interleaving of the calls on one service,
\* initializeGoogleCalendar succeeds at most once and calendarClient, once
\* set, is never assigned again; while no initialization has succeeded the
\* client is unset.
C29_InitializedOnce ==
  /\ svc.runs <= 1
  /\ ~svc.replaced
  /\ svc.runs = 0 => svc.calendarClient = 0

\* --------------------------------------------------------------- C30
\* The step is a request the mock server rejected: an Insert or Update
\* answered 400, or a Get, Update or Delete answered 404.
RequestRejected ==
  /\ ops' = ops + 1
  /\ \/ resp'.op \in {"insert", "update"} /\ resp'.status = "400"
     \/ resp'.op \in {"get", "update", "delete"} /\ resp'.status = "404"

\* C30: a request the mock server rejects changes nothing: after an Insert
\* or Update answered 400, or a Get, Update or Delete answered 404, the
\* event store and the identifier counter are what they were before.
C30_RejectedRequestChangesNothing ==
  [][RequestRejected => events' = events /\ nextID' = nextID]_vars

\* An Insert was answered 400 by a server that holds an event and has
\* advanced its counter.
C30_Witness ==
  /\ resp.op = "insert"
  /\ resp.status = "400"
  /\ nextID > InitialNextID
  /\ \E c \in DOMAIN events : DOMAIN events[c] # {}

====
